---- MODULE Spec2Model ----
(***************************************************************************)
(* Model of src/accounts.rs (ton-labs-block): the storage footprint        *)
(* engine (StorageUsed / StorageUsedShort), the account lifecycle          *)
(* (Account, AccountStorage, AccountState) and the Account wire codec.     *)
(*                                                                         *)
(* A cell is a record [data |-> sequence of bits, refs |-> sequence of     *)
(* cells]; a Maybe value is the empty sequence (None) or a one-element     *)
(* sequence (Some); a fallible call returns a record with a field ok.      *)
(***************************************************************************)
EXTENDS Integers, Sequences, FiniteSets, TLC

VARIABLES
    dag,      \* footprint runs: the node graph the roots are taken from
    short,    \* footprint runs: the StorageUsedShort accumulator
    short0,   \* footprint runs: the accumulator as it was constructed
    roots,    \* footprint runs: the roots appended so far, in order
    calc,     \* footprint runs: the last calculate_for_struct call
    account,  \* account runs: the Account
    last,     \* account runs: the last call: method, arguments, result and
              \*   the account before it
    frozen_from, \* account runs: the state_init the last try_freeze replaced
    ncalls,   \* account runs: the number of calls made
    cx,       \* codec runs: the account given to the encoder
    cenc,     \* codec runs: the result of serialize
    cdec,     \* codec runs: the result of construct_from
    din,  \* decode runs, the input, a cell and what the input was made of
    dout, \* decode runs, the last decode call and its result
    pacc,  \* proof runs, the account prepare_proof is called on
    proot,  \* proof runs, the state root given to prepare_proof
    pout, \* proof runs, the result of prepare_proof
    shard,  \* shard-account runs, the ShardAccount
    slast,  \* shard-account runs, the last call, its argument and result, and the ShardAccount before it
    scalls, \* shard-account runs, the number of calls made
    built, \* the last constructor call and the account it returned
    ctrail  \* the decode of the encoding of cx followed by trailing bits

fvars == <<dag, short, short0, roots, calc>>
avars == <<account, last, frozen_from, ncalls>>
cvars == <<cx, cenc, cdec>>
dvars == <<din, dout>>
pvars == <<pacc, proot, pout>>
svars == <<shard, slast, scalls>>
bvars == <<built>>
tvars == <<ctrail>>
vars == <<dag, short, short0, roots, calc, account, last, frozen_from, ncalls,
          cx, cenc, cdec,
          din, dout,
          pacc, proot, pout,
          shard, slast, scalls,
          built,
          ctrail>>

-----------------------------------------------------------------------------
(* Bounds of the model *)

\* number of nodes of a node graph
NumNodes == 3
\* largest number of child references in a whole node graph
MaxEdges == 3
\* largest number of append calls on one accumulator
MaxAppends == 2
\* largest amount of grams of the model: the amounts range over 0..MaxGrams,
\* MaxGrams standing for the largest amount the balance type holds
MaxGrams == 1
\* largest amount of the extra currency of the model, in the same way
MaxExtra == 1
\* largest logical time given to set_last_tr_time
MaxLt == 1
\* largest number of method calls on the account of an account run
MaxCalls == 3
\* largest number of method calls on the ShardAccount of a shard-account run
MaxShardCalls == 2

-----------------------------------------------------------------------------
(* Maybe values and bit strings *)

\* `let v = r; K(v)`: the value read is computed once, before it is handed
\* on (the test r = r makes the evaluator compute r here)
Bind(r, K(_)) == CASE r = r -> K(r)

None == <<>>
Some(v) == <<v>>
IsSome(m) == Len(m) = 1
Unwrap(m) == m[1]

\* the w-bit big-endian representation of n (n below 2^31)
ToBits(n, w) ==
    [i \in 1..w |-> IF w - i <= 30 THEN (n \div (2 ^ (w - i))) % 2 ELSE 0]

RECURSIVE LowBitsToNat(_)
LowBitsToNat(s) ==
    IF Len(s) = 0 THEN 0
    ELSE 2 * LowBitsToNat(SubSeq(s, 1, Len(s) - 1)) + s[Len(s)]

\* the number a big-endian bit string holds; -1 when it does not fit 30 bits
BitsToNat(s) ==
    IF \E i \in 1..(Len(s) - 30) : s[i] = 1 THEN -1
    ELSE LowBitsToNat(SubSeq(s, IF Len(s) > 30 THEN Len(s) - 29 ELSE 1, Len(s)))

-----------------------------------------------------------------------------
(* Cells: the content-addressed node primitive (ton_types::Cell) *)

\* modulus of the model's representation hash
HashMod == 32749

RECURSIVE SumOver(_, _)
SumOver(S, w) ==
    IF S = {} THEN 0
    ELSE LET x == CHOOSE y \in S : TRUE IN (w[x] + SumOver(S \ {x}, w)) % HashMod

\* hash of a cell's own bit string: its length and the positions of its 1 bits
DataHash(d) ==
    (Len(d) * 31 + 17
       + SumOver({i \in 1..Len(d) : d[i] = 1},
                 [i \in 1..Len(d) |-> (((i * i) % HashMod) + (7 * i) + 3) % HashMod]))
    % HashMod

\* A cell is [data, refs]: its bits and its references in order.  A cell
\* whose references all lead to one child may be written [data, refs, times]
\* with refs = <<child>>: it has times references, each of them the child.
\* The chains of ChainCell are written so; a chain of depth d then has d + 1
\* nodes to write down and 4^d reference paths to its leaf.
Repeats(cell) == "times" \in DOMAIN cell

\* Cell::references_count, Cell::reference(i)
references_count(cell) == IF Repeats(cell) THEN cell.times ELSE Len(cell.refs)
reference(cell, i) == IF Repeats(cell) THEN cell.refs[1] ELSE cell.refs[i]

\* Cell::repr_hash: the hash of the cell's bits and of its children's hashes
RECURSIVE repr_hash(_)
repr_hash(cell) ==
    IF Repeats(cell)
    THEN Bind(repr_hash(cell.refs[1]), LAMBDA h :
             (DataHash(cell.data) + 101 * cell.times
                + SumOver(1..cell.times,
                          [i \in 1..cell.times |-> ((211 * i + 1) * h) % HashMod]))
             % HashMod)
    ELSE
    (DataHash(cell.data) + 101 * Len(cell.refs)
       + SumOver(1..Len(cell.refs),
                 [i \in 1..Len(cell.refs) |->
                     ((211 * i + 1) * repr_hash(cell.refs[i])) % HashMod]))
    % HashMod

\* Cell::bit_length
bit_length(cell) == Len(cell.data)

\* the set of cells reachable from a cell, the cell included
RECURSIVE Reachable(_)
Reachable(cell) ==
    {cell} \cup UNION {Reachable(cell.refs[i]) : i \in 1..Len(cell.refs)}

\* total own bit length of a set of cells
RECURSIVE TotalBits(_)
TotalBits(S) ==
    IF S = {} THEN 0
    ELSE LET c == CHOOSE x \in S : TRUE IN bit_length(c) + TotalBits(S \ {c})

-----------------------------------------------------------------------------
(* VarUInteger7: an unsigned integer of at most 7 bytes, kept as two       *)
(* 28-bit limbs [hi, lo] so that its full width is represented.            *)

Limb == 2 ^ 28

VarUInteger7_default == [hi |-> 0, lo |-> 0]
VarUInteger7_MAX == [hi |-> Limb - 1, lo |-> Limb - 1]

\* VarUInteger7::new(value): value is a u64, kept like the counter as
\* 28-bit limbs [hi, lo], with hi at or above Limb for a value that needs more
\* than 7 bytes; such a value is refused
VarUInteger7_new(value) ==
    IF value.hi >= Limb
    THEN [ok |-> FALSE, val |-> VarUInteger7_default]
    ELSE [ok |-> TRUE, val |-> value]

\* VarUInteger7::add_checked(other): adds when the sum fits 7 bytes and
\* answers true; otherwise leaves the counter as it is and answers false
add_checked(v, other) ==
    LET lo == v.lo + other
        hi == v.hi + (lo \div Limb)
    IN  IF hi >= Limb
        THEN [ok |-> FALSE, val |-> v]
        ELSE [ok |-> TRUE, val |-> [hi |-> hi, lo |-> lo % Limb]]

\* the counter, or the u64, holding the number n (below 2^28)
VU7(n) == [hi |-> 0, lo |-> n]

\* u64 arithmetic on the limbs (no sum of the runs reaches 2^64)
u64_add(a, b) ==
    [hi |-> a.hi + b.hi + ((a.lo + b.lo) \div Limb), lo |-> (a.lo + b.lo) % Limb]
u64_times(a, k) ==
    [hi |-> a.hi * k + ((a.lo * k) \div Limb), lo |-> (a.lo * k) % Limb]

\* the counter's value plus n exceeds the 7-byte maximum
Exceeds(v, n) == v.hi + ((v.lo + n) \div Limb) >= Limb

-----------------------------------------------------------------------------
(* Storage footprint engine: StorageUsed and StorageUsedShort *)

\* StorageExtra::None and StorageExtra::Dict { dict_hash }, as a Maybe hash
StorageExtra_default == None

StorageUsed_default ==
    [cells |-> VarUInteger7_default, bits |-> VarUInteger7_default,
     extra |-> StorageExtra_default]

StorageUsedShort_default ==
    [cells |-> VarUInteger7_default, bits |-> VarUInteger7_default]

\* StorageUsed::with_values_checked(cells, bits, extra): each counter is
\* built by VarUInteger7::new(..)?, cells first; [ok, val]
StorageUsed_with_values_checked(cells, bits, extra) ==
    Bind(VarUInteger7_new(cells), LAMBDA c :
        IF ~c.ok THEN [ok |-> FALSE, val |-> StorageUsed_default]
        ELSE Bind(VarUInteger7_new(bits), LAMBDA b :
            IF ~b.ok THEN [ok |-> FALSE, val |-> StorageUsed_default]
            ELSE [ok |-> TRUE,
                  val |-> [cells |-> c.val, bits |-> b.val, extra |-> extra]]))

\* StorageUsedShort::with_values_checked(cells, bits): each counter is built
\* by VarUInteger7::new(..)?, cells first; [ok, val]
StorageUsedShort_with_values_checked(cells, bits) ==
    Bind(VarUInteger7_new(cells), LAMBDA c :
        IF ~c.ok THEN [ok |-> FALSE, val |-> StorageUsedShort_default]
        ELSE Bind(VarUInteger7_new(bits), LAMBDA b :
            IF ~b.ok THEN [ok |-> FALSE, val |-> StorageUsedShort_default]
            ELSE [ok |-> TRUE, val |-> [cells |-> c.val, bits |-> b.val]]))

\* StorageUsed::calculate_for_cell. st is [self, hashes]: the StorageUsed being
\* filled and the set of hashes seen; the results of add_checked are dropped.
\* The loop over the references of a [data, refs, times] cell visits one child
\* times times: the first visit puts the child's hash in the set, and every
\* later visit returns at the hash test, so one visit stands for the loop.
RECURSIVE StorageUsed_calculate_for_cell(_, _)
RECURSIVE StorageUsed_for_refs(_, _, _)
StorageUsed_for_refs(st, cell, i) ==
    CASE i > references_count(cell) -> st
      [] Repeats(cell) -> StorageUsed_calculate_for_cell(st, cell.refs[1])
      [] OTHER ->
           Bind(StorageUsed_calculate_for_cell(st, reference(cell, i)), LAMBDA s :
               StorageUsed_for_refs(s, cell, i + 1))

\* the traversal without the visited-hash test: every path is counted
RECURSIVE StorageUsed_calculate_no_dedup(_, _)
RECURSIVE StorageUsed_no_dedup_refs(_, _, _)
StorageUsed_no_dedup_refs(st, cell, i) ==
    IF i > references_count(cell) THEN st
    ELSE StorageUsed_no_dedup_refs(
             StorageUsed_calculate_no_dedup(st, reference(cell, i)), cell, i + 1)
StorageUsed_calculate_no_dedup(st, cell) ==
    StorageUsed_no_dedup_refs(
        [hashes |-> st.hashes \cup {repr_hash(cell)},
         self |-> [st.self EXCEPT
                     !.cells = add_checked(st.self.cells, 1).val,
                     !.bits = add_checked(st.self.bits, bit_length(cell)).val]],
        cell, 1)

StorageUsed_calculate_for_cell(st, cell) ==
    IF repr_hash(cell) \in st.hashes THEN st
    ELSE StorageUsed_for_refs(
             [hashes |-> st.hashes \cup {repr_hash(cell)},
              self |-> [st.self EXCEPT
                          !.cells = add_checked(st.self.cells, 1).val,
                          !.bits = add_checked(st.self.bits, bit_length(cell)).val]],
             cell, 1)

\* StorageUsed::calculate_for_struct(value), given ser = value.serialize()
StorageUsed_calculate_for_struct(ser) ==
    IF ~ser.ok THEN [ok |-> FALSE, val |-> StorageUsed_default]
    ELSE [ok |-> TRUE,
          val |-> StorageUsed_calculate_for_cell(
                      [self |-> StorageUsed_default, hashes |-> {}], ser.cell).self]

\* StorageUsedShort::calculate_for_cell
RECURSIVE StorageUsedShort_calculate_for_cell(_, _)
RECURSIVE StorageUsedShort_for_refs(_, _, _)
StorageUsedShort_for_refs(st, cell, i) ==
    CASE i > references_count(cell) -> st
      [] Repeats(cell) -> StorageUsedShort_calculate_for_cell(st, cell.refs[1])
      [] OTHER ->
           Bind(StorageUsedShort_calculate_for_cell(st, reference(cell, i)), LAMBDA s :
               StorageUsedShort_for_refs(s, cell, i + 1))

StorageUsedShort_calculate_for_cell(st, cell) ==
    IF repr_hash(cell) \in st.hashes THEN st
    ELSE StorageUsedShort_for_refs(
             [hashes |-> st.hashes \cup {repr_hash(cell)},
              self |-> [cells |-> add_checked(st.self.cells, 1).val,
                        bits |-> add_checked(st.self.bits, bit_length(cell)).val]],
             cell, 1)

\* StorageUsedShort::calculate_for_struct(value), given ser = value.serialize()
StorageUsedShort_calculate_for_struct(ser) ==
    IF ~ser.ok THEN [ok |-> FALSE, val |-> StorageUsedShort_default]
    ELSE [ok |-> TRUE,
          val |-> StorageUsedShort_calculate_for_cell(
                      [self |-> StorageUsedShort_default, hashes |-> {}],
                      ser.cell).self]

\* StorageUsedShort::append(root_cell): a fresh hash set on every call
StorageUsedShort_append(self, root_cell) ==
    StorageUsedShort_calculate_for_cell(
        [self |-> self, hashes |-> {}], root_cell).self

-----------------------------------------------------------------------------
(* BuilderData: the bits and references written so far.  A builder holds at *)
(* most 1023 bits and 4 references; a write that does not fit fails, and    *)
(* the failure is carried to the end of the serialization (the ? operator). *)

MAX_DATA_BITS == 1023
MAX_REFERENCES_COUNT == 4

BuilderData_new == [ok |-> TRUE, data |-> <<>>, refs |-> <<>>]

append_raw(b, bits) ==
    IF b.ok /\ Len(b.data) + Len(bits) <= MAX_DATA_BITS
    THEN [b EXCEPT !.data = b.data \o bits]
    ELSE [b EXCEPT !.ok = FALSE]

append_bits(b, value, w) == append_raw(b, ToBits(value, w))

checked_append_reference(b, cell) ==
    IF b.ok /\ Len(b.refs) < MAX_REFERENCES_COUNT
    THEN [b EXCEPT !.refs = b.refs \o <<cell>>]
    ELSE [b EXCEPT !.ok = FALSE]

\* BuilderData::into_cell, as the end of Serializable::serialize
into_cell(b) ==
    [ok |-> b.ok, cell |-> [data |-> b.data, refs |-> b.refs]]

-----------------------------------------------------------------------------
(* Field codecs used by the account layout *)

\* number of bytes needed for a number below 2^28
ByteLen(n) == IF n = 0 THEN 0 ELSE IF n < 2 ^ 8 THEN 1 ELSE IF n < 2 ^ 16 THEN 2
              ELSE IF n < 2 ^ 24 THEN 3 ELSE 4

\* VarUInteger7::write_to: a 3-bit byte count, then that many bytes
VarUInteger7_bytes(v) ==
    LET all == ToBits(v.hi, 28) \o ToBits(v.lo, 28)
        lead == IF \E i \in 1..56 : all[i] = 1
                THEN (CHOOSE i \in 1..56 :
                         all[i] = 1 /\ \A j \in 1..(i - 1) : all[j] = 0) - 1
                ELSE 56
    IN  7 - (lead \div 8)

VarUInteger7_write_to(v, b) ==
    LET n == VarUInteger7_bytes(v)
        all == ToBits(v.hi, 28) \o ToBits(v.lo, 28)
    IN  append_raw(append_bits(b, n, 3), SubSeq(all, 57 - 8 * n, 56))

\* Grams::write_to (VarUInteger16): a 4-bit byte count, then that many bytes
Grams_write_to(g, b) ==
    append_bits(append_bits(b, ByteLen(g), 4), g, 8 * ByteLen(g))

\* root of the extra-currency dictionary holding the amount n of the one
\* extra currency of the model
ExtraRoot(n) == [data |-> ToBits(n, 32), refs |-> <<>>]

\* CurrencyCollection::write_to: grams, then the extra-currency dictionary
\* (HashmapE: the bit 0 when empty, the bit 1 and its root otherwise)
CurrencyCollection_write_to(cc, b) ==
    IF cc.other = 0
    THEN append_bits(Grams_write_to(cc.grams, b), 0, 1)
    ELSE checked_append_reference(
             append_bits(Grams_write_to(cc.grams, b), 1, 1), ExtraRoot(cc.other))

\* UInt256::write_to
UInt256_write_to(h, b) == append_bits(b, h, 256)

\* MsgAddressInt::write_to for addr_std without anycast:
\* addr_std$10 anycast:(Maybe Anycast) workchain_id:int8 address:bits256
MsgAddressInt_write_to(addr, b) ==
    append_bits(
        append_bits(append_bits(append_bits(b, 2, 2), 0, 1),
                    addr.workchain_id, 8),
        addr.address, 256)

\* MsgAddressInt::get_address: the account id
get_address(addr) == addr.address

-----------------------------------------------------------------------------
(* StateInit (messages.rs):                                                *)
(*   _ split_depth:(Maybe (## 5)) special:(Maybe TickTock)                 *)
(*     code:(Maybe ^Cell) data:(Maybe ^Cell) library:(Maybe ^Cell)         *)
(* library holds the root of the library dictionary.                       *)

StateInit_default ==
    [split_depth |-> None, special |-> None, code |-> None, data |-> None,
     library |-> None]

MaybeRef_write_to(m, b) ==
    IF IsSome(m) THEN checked_append_reference(append_bits(b, 1, 1), Unwrap(m))
    ELSE append_bits(b, 0, 1)

StateInit_write_to(si, b) ==
    LET b1 == IF IsSome(si.split_depth)
              THEN append_bits(append_bits(b, 1, 1), Unwrap(si.split_depth), 5)
              ELSE append_bits(b, 0, 1)
        b2 == IF IsSome(si.special)
              THEN append_bits(append_bits(b1, 1, 1), Unwrap(si.special), 2)
              ELSE append_bits(b1, 0, 1)
    IN  MaybeRef_write_to(si.library,
            MaybeRef_write_to(si.data, MaybeRef_write_to(si.code, b2)))

\* GetRepresentationHash::hash for StateInit: the hash of its serialization
StateInit_hash(si) ==
    LET ser == into_cell(StateInit_write_to(si, BuilderData_new))
    IN  [ok |-> ser.ok, val |-> repr_hash(ser.cell)]

\* the library dictionary holding the one library code under its hash:
\* a single leaf, hml_long$10 n:(#<= 256) s:(n * Bit), then
\* simple_lib$_ public:Bool root:^Cell
LibraryRoot(code, public) ==
    [data |-> <<1, 0>> \o ToBits(256, 9) \o ToBits(repr_hash(code), 256)
              \o <<IF public THEN 1 ELSE 0>>,
     refs |-> <<code>>]

\* HashmapE 256 SimpleLib (StateInitLib): the library dictionary, a binary
\* prefix tree over the 256 bits of the key.  Every node is a cell that
\* starts with a label, the key bits all entries below it share:
\*   hml_short$0 len:(Unary ~n) s:(n * Bit)
\*   hml_long$10 n:(#<= m) s:(n * Bit)
\*   hml_same$11 v:Bit n:(#<= m)
\* A label that ends the key makes a leaf, the value following the label; a
\* shorter one makes a fork with the subtrees of the next bit 0 and 1 as its
\* two references.
KeyBits256 == 256

\* the number of bits that hold a length up to max
RECURSIVE BitLen(_)
BitLen(max) == IF max = 0 THEN 0 ELSE 1 + BitLen(max \div 2)

\* hm_label: the shortest of the three label forms for the key bits, max
\* being the number of key bits not yet consumed
hm_label(key, max) ==
    IF Len(key) = 0 \/ max = 0 THEN <<0, 0>>
    ELSE IF /\ \A i \in 1..Len(key) : key[i] = key[1]
            /\ 3 + BitLen(max) < 2 + BitLen(max) + Len(key)
            /\ 3 + BitLen(max) < 2 + 2 * Len(key)
    THEN <<1, 1, key[1]>> \o ToBits(Len(key), BitLen(max))
    ELSE IF 2 + 2 * Len(key) <= 2 + BitLen(max) + Len(key)
    THEN <<0>> \o [i \in 1..Len(key) |-> 1] \o <<0>> \o key
    ELSE <<1, 0>> \o ToBits(Len(key), BitLen(max)) \o key

\* the number of ones from position i of the bits on
UnaryLen(data, i) ==
    IF \E j \in i..Len(data) : data[j] = 0
    THEN (CHOOSE j \in i..Len(data) :
             data[j] = 0 /\ \A h \in i..(j - 1) : data[h] = 1) - i
    ELSE IF Len(data) < i THEN 0 ELSE Len(data) - i + 1

NoLabel == [ok |-> FALSE, bits |-> <<>>, rest |-> <<>>]

\* the label of n bits that starts at position from of the data
LabelAt(data, n, from, max) ==
    IF n < 0 \/ n > max \/ Len(data) < from + n - 1 THEN NoLabel
    ELSE [ok |-> TRUE, bits |-> SubSeq(data, from, from + n - 1),
          rest |-> SubSeq(data, from + n, Len(data))]

\* reading the label a node starts with: [ok, bits, rest]
hm_label_read(data, max) ==
    IF Len(data) < 2 THEN NoLabel
    ELSE IF data[1] = 0
    THEN Bind(UnaryLen(data, 2), LAMBDA n :
             IF Len(data) < 2 + n THEN NoLabel
             ELSE LabelAt(data, n, 3 + n, max))
    ELSE IF Len(data) < 2 + BitLen(max) THEN NoLabel
    ELSE IF data[2] = 0
    THEN LabelAt(data, BitsToNat(SubSeq(data, 3, 2 + BitLen(max))),
                 3 + BitLen(max), max)
    ELSE IF Len(data) < 3 + BitLen(max) THEN NoLabel
    ELSE Bind(BitsToNat(SubSeq(data, 4, 3 + BitLen(max))), LAMBDA n :
             IF n < 0 \/ n > max THEN NoLabel
             ELSE [ok |-> TRUE, bits |-> [i \in 1..n |-> data[3]],
                   rest |-> SubSeq(data, 4 + BitLen(max), Len(data))])

\* the entries [key, val] of the tree under a node, prefix being the key
\* bits consumed above it: [ok, entries]
RECURSIVE Hashmap_entries(_, _)
Hashmap_entries(cell, prefix) ==
    Bind(hm_label_read(cell.data, KeyBits256 - Len(prefix)), LAMBDA l :
        IF ~l.ok THEN [ok |-> FALSE, entries |-> {}]
        ELSE IF Len(prefix) + Len(l.bits) = KeyBits256
        THEN [ok |-> TRUE,
              entries |-> {[key |-> prefix \o l.bits,
                            val |-> [data |-> l.rest, refs |-> cell.refs]]}]
        ELSE IF Len(cell.refs) < 2 THEN [ok |-> FALSE, entries |-> {}]
        ELSE Bind(Hashmap_entries(cell.refs[1], prefix \o l.bits \o <<0>>),
                  LAMBDA a :
             Bind(Hashmap_entries(cell.refs[2], prefix \o l.bits \o <<1>>),
                  LAMBDA b :
                  [ok |-> a.ok /\ b.ok, entries |-> a.entries \cup b.entries])))

\* the number of key bits from position i on that all the keys share
CommonPrefix(keys, i) ==
    IF \E j \in i..KeyBits256 : \E k1 \in keys, k2 \in keys : k1[j] # k2[j]
    THEN (CHOOSE j \in i..KeyBits256 :
             /\ \E k1 \in keys, k2 \in keys : k1[j] # k2[j]
             /\ \A h \in i..(j - 1) :
                    \A k1 \in keys, k2 \in keys : k1[h] = k2[h]) - i
    ELSE KeyBits256 - i + 1

\* the tree of the entries, which agree on their first depth key bits
RECURSIVE Hashmap_build(_, _)
Hashmap_build(entries, depth) ==
    Bind(CommonPrefix({e.key : e \in entries}, depth + 1), LAMBDA n :
    Bind(CHOOSE e \in entries : TRUE, LAMBDA any :
    Bind(hm_label(SubSeq(any.key, depth + 1, depth + n), KeyBits256 - depth),
         LAMBDA label :
        IF depth + n = KeyBits256
        THEN [data |-> label \o any.val.data, refs |-> any.val.refs]
        ELSE [data |-> label,
              refs |-> <<Hashmap_build({e \in entries : e.key[depth + n + 1] = 0},
                                       depth + n + 1),
                         Hashmap_build({e \in entries : e.key[depth + n + 1] = 1},
                                       depth + n + 1)>>])))

\* the entries of a dictionary, None being the empty one
HashmapE_entries(dict) ==
    IF IsSome(dict) THEN Hashmap_entries(Unwrap(dict), <<>>)
    ELSE [ok |-> TRUE, entries |-> {}]

\* the dictionary of the entries
HashmapE_of(entries) ==
    IF entries = {} THEN None ELSE Some(Hashmap_build(entries, 0))

\* HashmapE::get: [ok, val], val the value under the key if there is one
HashmapE_get(dict, hash) ==
    Bind(HashmapE_entries(dict), LAMBDA r :
        [ok |-> r.ok,
         val |-> IF r.ok /\ \E e \in r.entries : e.key = ToBits(hash, KeyBits256)
                 THEN Some((CHOOSE e \in r.entries :
                               e.key = ToBits(hash, KeyBits256)).val)
                 ELSE None])

\* HashmapE::set: [ok, dict]
HashmapE_set(dict, hash, val) ==
    Bind(HashmapE_entries(dict), LAMBDA r :
        IF ~r.ok THEN [ok |-> FALSE, dict |-> dict]
        ELSE [ok |-> TRUE,
              dict |-> HashmapE_of(
                  {e \in r.entries : e.key # ToBits(hash, KeyBits256)}
                  \cup {[key |-> ToBits(hash, KeyBits256), val |-> val]})])

\* HashmapE::remove: [ok, dict]
HashmapE_remove(dict, hash) ==
    Bind(HashmapE_entries(dict), LAMBDA r :
        IF ~r.ok THEN [ok |-> FALSE, dict |-> dict]
        ELSE [ok |-> TRUE,
              dict |-> HashmapE_of(
                  {e \in r.entries : e.key # ToBits(hash, KeyBits256)})])

\* simple_lib$_ public:Bool root:^Cell as the value of an entry
SimpleLib_new(code, public) ==
    [data |-> <<IF public THEN 1 ELSE 0>>, refs |-> <<code>>]

-----------------------------------------------------------------------------
(* StorageInfo, AccountState, AccountStorage, AccountStuff *)

\* StorageUsedShort::write_to
StorageUsedShort_write_to(st, b) ==
    VarUInteger7_write_to(st.bits, VarUInteger7_write_to(st.cells, b))

\* StorageUsed::write_to
StorageUsed_write_to(used, b) ==
    LET b2 == VarUInteger7_write_to(used.bits, VarUInteger7_write_to(used.cells, b))
    IN  IF IsSome(used.extra)
        THEN UInt256_write_to(Unwrap(used.extra), append_bits(b2, 1, 3))
        ELSE append_bits(b2, 0, 3)

StorageInfo_default ==
    [used |-> StorageUsed_default, last_paid |-> 0, due_payment |-> None]

\* StorageInfo::with_values
StorageInfo_with_values(last_paid, due_payment) ==
    [used |-> StorageUsed_default, last_paid |-> last_paid,
     due_payment |-> due_payment]

\* StorageInfo::write_to
StorageInfo_write_to(info, b) ==
    LET b2 == append_bits(StorageUsed_write_to(info.used, b), info.last_paid, 32)
    IN  IF IsSome(info.due_payment)
        THEN Grams_write_to(Unwrap(info.due_payment), append_bits(b2, 1, 1))
        ELSE append_bits(b2, 0, 1)

AccountUninit == [tag |-> "Uninit"]
AccountActive(state_init) == [tag |-> "Active", state_init |-> state_init]
AccountFrozen(state_init_hash) ==
    [tag |-> "Frozen", state_init_hash |-> state_init_hash]

\* AccountState::write_to
AccountState_write_to(state, b) ==
    CASE state.tag = "Uninit" -> append_bits(b, 0, 2)
      [] state.tag = "Frozen" ->
            UInt256_write_to(state.state_init_hash, append_bits(b, 1, 2))
      [] state.tag = "Active" ->
            StateInit_write_to(state.state_init, append_bits(b, 1, 1))

CurrencyCollection_default == [grams |-> 0, other |-> 0]

AccountStorage_default ==
    [last_trans_lt |-> 0, balance |-> CurrencyCollection_default,
     state |-> AccountUninit, init_code_hash |-> None]

\* AccountStorage::unint / with_balance
AccountStorage_unint(balance) ==
    [AccountStorage_default EXCEPT !.balance = balance]

\* Option::map(|code| code.repr_hash()) on StateInit::code()
CodeHash(state_init) ==
    IF IsSome(state_init.code) THEN Some(repr_hash(Unwrap(state_init.code)))
    ELSE None

\* AccountStorage::active_by_init_code_hash
AccountStorage_active_by_init_code_hash(last_trans_lt, balance, state_init, init_code_hash) ==
    [last_trans_lt |-> last_trans_lt, balance |-> balance,
     state |-> AccountActive(state_init),
     init_code_hash |-> IF init_code_hash THEN CodeHash(state_init) ELSE None]

\* AccountStorage::frozen
AccountStorage_frozen(last_trans_lt, balance, state_init_hash) ==
    [AccountStorage_default EXCEPT
        !.last_trans_lt = last_trans_lt, !.balance = balance,
        !.state = AccountFrozen(state_init_hash)]

\* AccountStorage::write_to
AccountStorage_write_to(storage, b) ==
    LET b3 == AccountState_write_to(storage.state,
                  CurrencyCollection_write_to(storage.balance,
                      append_bits(b, storage.last_trans_lt, 64)))
    IN  IF IsSome(storage.init_code_hash)
        THEN UInt256_write_to(Unwrap(storage.init_code_hash),
                              append_bits(b3, 1, 1))
        ELSE b3

AccountStorage_serialize(storage) ==
    into_cell(AccountStorage_write_to(storage, BuilderData_new))

\* a cell count that counts every distinct node once
tree_cell_count_distinct(cell) == VU7(Cardinality(Reachable(cell)))

\* Cell::tree_cell_count, Cell::tree_bits_count: the u64 counts kept with a
\* cell, its own and those of its children added up once per reference, with
\* no test for a node met before
RECURSIVE tree_cell_count(_)
RECURSIVE tree_cells_from(_, _)
tree_cells_from(cell, i) ==
    IF i > Len(cell.refs) THEN VU7(0)
    ELSE u64_add(tree_cell_count(cell.refs[i]), tree_cells_from(cell, i + 1))
tree_cell_count(cell) ==
    IF Repeats(cell)
    THEN Bind(tree_cell_count(cell.refs[1]), LAMBDA n :
             u64_add(VU7(1), u64_times(n, cell.times)))
    ELSE u64_add(VU7(1), tree_cells_from(cell, 1))
RECURSIVE tree_bits_count(_)
RECURSIVE tree_bits_from(_, _)
tree_bits_from(cell, i) ==
    IF i > Len(cell.refs) THEN VU7(0)
    ELSE u64_add(tree_bits_count(cell.refs[i]), tree_bits_from(cell, i + 1))
tree_bits_count(cell) ==
    IF Repeats(cell)
    THEN Bind(tree_bits_count(cell.refs[1]), LAMBDA n :
             u64_add(VU7(bit_length(cell)), u64_times(n, cell.times)))
    ELSE u64_add(VU7(bit_length(cell)), tree_bits_from(cell, 1))

\* the recomputation that counts a node once per reference path
AccountStuff_update_storage_stat_per_path(stuff) ==
    Bind(AccountStorage_serialize(stuff.storage), LAMBDA ser :
        IF ~ser.ok THEN [ok |-> FALSE, stuff |-> stuff]
        ELSE Bind(StorageUsed_with_values_checked(tree_cell_count(ser.cell),
                      tree_bits_count(ser.cell), StorageExtra_default), LAMBDA used :
                 IF used.ok
                 THEN [ok |-> TRUE,
                       stuff |-> [stuff EXCEPT !.storage_stat.used = used.val]]
                 ELSE [ok |-> FALSE, stuff |-> stuff]))

\* AccountStuff::update_storage_stat
AccountStuff_update_storage_stat(stuff) ==
    LET used == StorageUsed_calculate_for_struct(
                    AccountStorage_serialize(stuff.storage))
    IN  IF used.ok
        THEN [ok |-> TRUE, stuff |-> [stuff EXCEPT !.storage_stat.used = used.val]]
        ELSE [ok |-> FALSE, stuff |-> stuff]

\* AccountStuff::update_storage_stat_fast
AccountStuff_update_storage_stat_fast(stuff) ==
    Bind(AccountStorage_serialize(stuff.storage), LAMBDA ser :
        IF ~ser.ok THEN [ok |-> FALSE, stuff |-> stuff]
        ELSE Bind(VarUInteger7_new(tree_bits_count(ser.cell)), LAMBDA bits :
             Bind(VarUInteger7_new(tree_cell_count(ser.cell)), LAMBDA cells :
                 [ok |-> bits.ok /\ cells.ok,
                  stuff |-> [stuff EXCEPT !.storage_stat.used =
                      [bits |-> IF bits.ok THEN bits.val ELSE @.bits,
                       cells |-> IF bits.ok /\ cells.ok THEN cells.val ELSE @.cells,
                       extra |-> IF bits.ok /\ cells.ok THEN StorageExtra_default
                                 ELSE @.extra]]])))

\* AccountStuff::write_to
AccountStuff_write_to(stuff, b) ==
    AccountStorage_write_to(stuff.storage,
        StorageInfo_write_to(stuff.storage_stat,
            MsgAddressInt_write_to(stuff.addr, b)))

-----------------------------------------------------------------------------
(* Account: AccountNone is None, Account(stuff) is Some(stuff).  Every     *)
(* method is an operator from the account (and its arguments) to           *)
(* [ok, ret, acc]: whether it returned without error, the value returned,  *)
(* and the account afterwards.                                             *)

AccountNone == None
Account_with_stuff(stuff) == Some(stuff)

Ok(ret, acc) == [ok |-> TRUE, ret |-> ret, acc |-> acc]
Err(acc) == [ok |-> FALSE, ret |-> FALSE, acc |-> acc]

\* Account::update_storage_stat
update_storage_stat(acc) ==
    IF IsSome(acc)
    THEN LET r == AccountStuff_update_storage_stat(Unwrap(acc))
         IN  IF r.ok THEN Ok(TRUE, Some(r.stuff)) ELSE Err(acc)
    ELSE Ok(TRUE, acc)

\* Account::update_storage_stat_fast
update_storage_stat_fast(acc) ==
    IF IsSome(acc)
    THEN Bind(AccountStuff_update_storage_stat_fast(Unwrap(acc)), LAMBDA r :
             IF r.ok THEN Ok(TRUE, Some(r.stuff)) ELSE Err(Some(r.stuff)))
    ELSE Ok(TRUE, acc)

\* Account::active_by_init_code_hash
Account_active_by_init_code_hash(addr, balance, last_paid, state_init, init_code_hash) ==
    update_storage_stat(
        Some([addr |-> addr,
              storage_stat |-> StorageInfo_with_values(last_paid, None),
              storage |-> AccountStorage_active_by_init_code_hash(
                              0, balance, state_init, init_code_hash)]))

\* Account::with_address_and_ballance
Account_with_address_and_ballance(addr, balance) ==
    Some([addr |-> addr, storage_stat |-> StorageInfo_default,
          storage |-> AccountStorage_unint(balance)])

\* Account::with_address
Account_with_address(addr) ==
    Some([addr |-> addr, storage_stat |-> StorageInfo_default,
          storage |-> AccountStorage_default])

\* Account::from_message_by_init_code_hash
\* msg is [header, init]: the internal header (value, dst, bounce) if the
\* message has one, and the state_init if it carries one.  The result is
\* the Option: None, or Some of the account made.
Account_from_message_by_init_code_hash(msg, init_code_hash) ==
    IF ~IsSome(msg.header) THEN None
    ELSE IF Unwrap(msg.header).value.grams = 0 THEN None
    ELSE IF IsSome(msg.init) /\ ~IsSome(Unwrap(msg.init).code) THEN None
    ELSE IF ~IsSome(msg.init) /\ Unwrap(msg.header).bounce THEN None
    ELSE Bind(
        update_storage_stat(
            Some([addr |-> Unwrap(msg.header).dst,
                  storage_stat |-> StorageInfo_default,
                  storage |->
                      IF IsSome(msg.init)
                      THEN [AccountStorage_default EXCEPT
                               !.balance = Unwrap(msg.header).value,
                               !.init_code_hash =
                                   IF init_code_hash
                                   THEN Some(repr_hash(
                                            Unwrap(Unwrap(msg.init).code)))
                                   ELSE None,
                               !.state = AccountActive(Unwrap(msg.init))]
                      ELSE [AccountStorage_default EXCEPT
                               !.balance = Unwrap(msg.header).value]])),
        LAMBDA r : IF r.ok THEN Some(r.acc) ELSE None)

\* Account::frozen
Account_frozen(addr, last_trans_lt, last_paid, state_hash, due_payment, balance) ==
    LET storage == AccountStorage_frozen(last_trans_lt, balance, state_hash) IN
    Some([addr |-> addr,
          storage_stat |->
              [used |-> StorageUsed_calculate_for_struct(
                            AccountStorage_serialize(storage)).val,
               last_paid |-> last_paid, due_payment |-> due_payment],
          storage |-> storage])

\* Account::uninit
Account_uninit(addr, last_trans_lt, last_paid, balance) ==
    LET storage == [AccountStorage_default EXCEPT
                       !.last_trans_lt = last_trans_lt, !.balance = balance]
        bits == Len(AccountStorage_serialize(storage).cell.data)
    IN  Some([addr |-> addr,
              storage_stat |->
                  [used |-> StorageUsed_with_values_checked(
                                VU7(1), VU7(bits), StorageExtra_default).val,
                   last_paid |-> last_paid, due_payment |-> None],
              storage |-> storage])

\* Account::with_storage
Account_with_storage(addr, storage_stat, storage) ==
    Some([addr |-> addr, storage_stat |-> storage_stat, storage |-> storage])

\* Account::state
state(acc) == IF IsSome(acc) THEN Some(Unwrap(acc).storage.state) ELSE None

\* Account::state_init
state_init(acc) ==
    IF IsSome(acc) /\ Unwrap(acc).storage.state.tag = "Active"
    THEN Some(Unwrap(acc).storage.state.state_init)
    ELSE None

\* Account::init_code_hash
init_code_hash(acc) ==
    IF IsSome(acc) THEN Unwrap(acc).storage.init_code_hash ELSE None

\* Account::frozen_hash
frozen_hash(acc) ==
    IF IsSome(acc) /\ Unwrap(acc).storage.state.tag = "Frozen"
    THEN Some(Unwrap(acc).storage.state.state_init_hash)
    ELSE None

\* Account::status
status(acc) ==
    IF IsSome(acc)
    THEN CASE Unwrap(acc).storage.state.tag = "Uninit" -> "AccStateUninit"
           [] Unwrap(acc).storage.state.tag = "Frozen" -> "AccStateFrozen"
           [] Unwrap(acc).storage.state.tag = "Active" -> "AccStateActive"
    ELSE "AccStateNonexist"

\* try_freeze that keeps the hash of the code instead of the state_init
try_freeze_code_hash(acc) ==
    IF IsSome(acc) /\ Unwrap(acc).storage.state.tag = "Active"
    THEN Ok(TRUE, Some([Unwrap(acc) EXCEPT !.storage.state =
            AccountFrozen(
                IF IsSome(Unwrap(acc).storage.state.state_init.code)
                THEN repr_hash(Unwrap(Unwrap(acc).storage.state.state_init.code))
                ELSE 0)]))
    ELSE Ok(TRUE, acc)

\* Account::try_freeze
try_freeze(acc) ==
    IF IsSome(acc) /\ Unwrap(acc).storage.state.tag = "Active"
    THEN LET h == StateInit_hash(Unwrap(acc).storage.state.state_init) IN
         IF h.ok
         THEN Ok(TRUE, Some([Unwrap(acc) EXCEPT
                                !.storage.state = AccountFrozen(h.val)]))
         ELSE Err(acc)
    ELSE Ok(TRUE, acc)

\* uninit_account that resets every existing account, whatever its state
uninit_account_any_state(acc) ==
    IF IsSome(acc)
    THEN Ok(TRUE, Some([Unwrap(acc) EXCEPT !.storage.state = AccountUninit]))
    ELSE Ok(TRUE, acc)

\* Account::uninit_account
uninit_account(acc) ==
    IF IsSome(acc) /\ Unwrap(acc).storage.state.tag = "Active"
    THEN Ok(TRUE, Some([Unwrap(acc) EXCEPT !.storage.state = AccountUninit]))
    ELSE Ok(TRUE, acc)

\* Account::set_data
set_data(acc, new_data) ==
    IF IsSome(state_init(acc))
    THEN Ok(TRUE, Some([Unwrap(acc) EXCEPT
                           !.storage.state.state_init.data = Some(new_data)]))
    ELSE Ok(FALSE, acc)

\* Account::set_code
set_code(acc, new_code) ==
    IF IsSome(state_init(acc))
    THEN Ok(TRUE, Some([Unwrap(acc) EXCEPT
                           !.storage.state.state_init.code = Some(new_code)]))
    ELSE Ok(FALSE, acc)

\* the account with the library dictionary the dictionary call r returned,
\* the call returning r.ok
WithLibrary(acc, r) ==
    Ok(r.ok, Some([Unwrap(acc) EXCEPT
                      !.storage.state.state_init.library = r.dict]))

\* Account::set_library
set_library(acc, code, public) ==
    IF IsSome(state_init(acc))
    THEN WithLibrary(acc, HashmapE_set(Unwrap(state_init(acc)).library,
                                       repr_hash(code),
                                       SimpleLib_new(code, public)))
    ELSE Ok(FALSE, acc)

\* Account::set_library_flag
set_library_flag(acc, hash, public) ==
    IF IsSome(state_init(acc))
    THEN Bind(HashmapE_get(Unwrap(state_init(acc)).library, hash), LAMBDA g :
             IF ~g.ok \/ ~IsSome(g.val) THEN Ok(FALSE, acc)
             ELSE IF Len(Unwrap(g.val).data) < 1 \/ Len(Unwrap(g.val).refs) < 1
             THEN Ok(FALSE, acc)
             ELSE IF (Unwrap(g.val).data[1] = 1) = public THEN Ok(TRUE, acc)
             ELSE WithLibrary(acc,
                      HashmapE_set(Unwrap(state_init(acc)).library, hash,
                                   SimpleLib_new(Unwrap(g.val).refs[1], public))))
    ELSE Ok(FALSE, acc)

\* Account::delete_library: removing an absent key succeeds and changes nothing
delete_library(acc, hash) ==
    IF IsSome(state_init(acc))
    THEN WithLibrary(acc, HashmapE_remove(Unwrap(state_init(acc)).library, hash))
    ELSE Ok(FALSE, acc)

\* activation that skips the comparison with the account address
try_activate_no_address_test(acc, si, flag) ==
    IF IsSome(acc)
    THEN LET stuff == Unwrap(acc)
             h == StateInit_hash(si)
         IN
         CASE stuff.storage.state.tag = "Uninit" ->
                IF ~h.ok THEN Err(acc)
                ELSE IF TRUE
                THEN Ok(TRUE, Some([stuff EXCEPT
                        !.storage.state = AccountActive(si),
                        !.storage.init_code_hash =
                            IF flag THEN CodeHash(si) ELSE None]))
                ELSE Err(acc)
           [] stuff.storage.state.tag = "Frozen" ->
                IF ~h.ok THEN Err(acc)
                ELSE IF stuff.storage.state.state_init_hash = h.val
                THEN Ok(TRUE, Some([stuff EXCEPT
                        !.storage.state = AccountActive(si),
                        !.storage.init_code_hash = None]))
                ELSE Err(acc)
           [] OTHER ->
                Ok(TRUE, Some([stuff EXCEPT !.storage.init_code_hash = None]))
    ELSE Err(acc)

\* Account::try_activate_by_init_code_hash
try_activate_by_init_code_hash(acc, si, flag) ==
    IF IsSome(acc)
    THEN LET stuff == Unwrap(acc)
             h == StateInit_hash(si)
         IN
         CASE stuff.storage.state.tag = "Uninit" ->
                IF ~h.ok THEN Err(acc)
                ELSE IF h.val = get_address(stuff.addr)
                THEN Ok(TRUE, Some([stuff EXCEPT
                        !.storage.state = AccountActive(si),
                        !.storage.init_code_hash =
                            IF flag THEN CodeHash(si) ELSE None]))
                ELSE Err(acc)
           [] stuff.storage.state.tag = "Frozen" ->
                IF ~h.ok THEN Err(acc)
                ELSE IF stuff.storage.state.state_init_hash = h.val
                THEN Ok(TRUE, Some([stuff EXCEPT
                        !.storage.state = AccountActive(si),
                        !.storage.init_code_hash = None]))
                ELSE Err(acc)
           [] OTHER ->
                Ok(TRUE, Some([stuff EXCEPT !.storage.init_code_hash = None]))
    ELSE Err(acc)

\* Account::set_balance
set_balance(acc, balance) ==
    IF IsSome(acc)
    THEN Ok(TRUE, Some([Unwrap(acc) EXCEPT !.storage.balance = balance]))
    ELSE Ok(TRUE, acc)

\* CurrencyCollection::add
\* saturating sum of two amounts of a type whose largest amount is max
SaturatingAdd(a, b, max) == IF a + b > max THEN max ELSE a + b

\* an add that fails, and changes nothing, when a sum passes the largest
\* amount
CurrencyCollection_add_checked(cc, other) ==
    IF cc.grams + other.grams <= MaxGrams /\ cc.other + other.other <= MaxExtra
    THEN [ok |-> TRUE, val |-> [grams |-> cc.grams + other.grams,
                                other |-> cc.other + other.other]]
    ELSE [ok |-> FALSE, val |-> cc]

\* CurrencyCollection::add (a Result): every currency by its saturating sum,
\* never an error
CurrencyCollection_add(cc, other) ==
    [ok |-> TRUE,
     val |-> [grams |-> SaturatingAdd(cc.grams, other.grams, MaxGrams),
              other |-> SaturatingAdd(cc.other, other.other, MaxExtra)]]

\* a sub that takes the grams before it looks at the extra currency
CurrencyCollection_sub_grams_first(cc, other) ==
    IF other.grams > cc.grams THEN [ret |-> FALSE, val |-> cc]
    ELSE IF other.other > cc.other
    THEN [ret |-> FALSE, val |-> [cc EXCEPT !.grams = cc.grams - other.grams]]
    ELSE [ret |-> TRUE, val |-> [grams |-> cc.grams - other.grams,
                                 other |-> cc.other - other.other]]

\* CurrencyCollection::sub: false, and no change, when the funds do not cover it
CurrencyCollection_sub(cc, other) ==
    IF other.grams <= cc.grams /\ other.other <= cc.other
    THEN [ret |-> TRUE, val |-> [grams |-> cc.grams - other.grams,
                                 other |-> cc.other - other.other]]
    ELSE [ret |-> FALSE, val |-> cc]

\* Account::add_funds
add_funds(acc, funds_to_add) ==
    IF IsSome(acc)
    THEN Bind(CurrencyCollection_add(Unwrap(acc).storage.balance, funds_to_add),
              LAMBDA r :
                  IF r.ok
                  THEN Ok(TRUE, Some([Unwrap(acc) EXCEPT !.storage.balance = r.val]))
                  ELSE Err(Some([Unwrap(acc) EXCEPT !.storage.balance = r.val])))
    ELSE Ok(TRUE, acc)

\* Account::sub_funds
sub_funds(acc, funds_to_sub) ==
    IF IsSome(acc)
    THEN LET r == CurrencyCollection_sub(Unwrap(acc).storage.balance, funds_to_sub)
         IN  Ok(r.ret, Some([Unwrap(acc) EXCEPT !.storage.balance = r.val]))
    ELSE Ok(FALSE, acc)

\* Account::set_last_tr_time
set_last_tr_time(acc, tr_lt) ==
    IF IsSome(acc)
    THEN Ok(TRUE, Some([Unwrap(acc) EXCEPT !.storage.last_trans_lt = tr_lt]))
    ELSE Ok(TRUE, acc)

\* Account::set_last_paid
set_last_paid(acc, last_paid) ==
    IF IsSome(acc)
    THEN Ok(TRUE, Some([Unwrap(acc) EXCEPT !.storage_stat.last_paid = last_paid]))
    ELSE Ok(TRUE, acc)

\* Account::set_due_payment
set_due_payment(acc, due_payment) ==
    IF IsSome(acc)
    THEN Ok(TRUE, Some([Unwrap(acc) EXCEPT
                           !.storage_stat.due_payment = due_payment]))
    ELSE Ok(TRUE, acc)

\* Account::state_init_mut, the caller storing the state_init si through the
\* reference it is handed: the call returns Some exactly on an Active
\* account
state_init_mut(acc, si) ==
    IF IsSome(state_init(acc))
    THEN Ok(TRUE, Some([Unwrap(acc) EXCEPT !.storage.state.state_init = si]))
    ELSE Ok(FALSE, acc)

\* Account::freeze_account: try_freeze().unwrap(), a failure being a panic
freeze_account(acc) == try_freeze(acc)

\* Account::get_addr
get_addr(acc) == IF IsSome(acc) THEN Some(Unwrap(acc).addr) ELSE None

\* Account::set_addr
set_addr(acc, addr) ==
    IF IsSome(acc)
    THEN Ok(TRUE, Some([Unwrap(acc) EXCEPT !.addr = addr]))
    ELSE Ok(TRUE, acc)

\* Account::set_init_code_hash
set_init_code_hash(acc, h) ==
    IF IsSome(acc)
    THEN Ok(TRUE, Some([Unwrap(acc) EXCEPT !.storage.init_code_hash = Some(h)]))
    ELSE Ok(TRUE, acc)

-----------------------------------------------------------------------------
(* Account wire codec.  A slice (SliceData) is [ok, data, refs]: the bits  *)
(* and references not read yet; a read past the end clears ok, which       *)
(* stands for the error the ? operator carries out of the decoder.  Every  *)
(* read returns [sl, val]: the slice afterwards and the value read.        *)

SliceData_load_cell(cell) == [ok |-> TRUE, data |-> cell.data, refs |-> cell.refs]

Failed(sl) == [sl EXCEPT !.ok = FALSE]

remaining_bits(sl) == Len(sl.data)

\* SliceData::get_next_bits(n), as the bit string
get_next_bits(sl, n) ==
    IF sl.ok /\ Len(sl.data) >= n
    THEN [sl |-> [sl EXCEPT !.data = SubSeq(sl.data, n + 1, Len(sl.data))],
          val |-> SubSeq(sl.data, 1, n)]
    ELSE [sl |-> Failed(sl), val |-> <<>>]

\* SliceData::get_next_int(n) / get_next_bit / get_next_u32 / u64 / get_next_hash
get_next_int(sl, n) ==
    Bind(get_next_bits(sl, n), LAMBDA r : [sl |-> r.sl, val |-> BitsToNat(r.val)])

\* SliceData::checked_drain_reference
checked_drain_reference(sl) ==
    IF sl.ok /\ Len(sl.refs) >= 1
    THEN [sl |-> [sl EXCEPT !.refs = Tail(sl.refs)], val |-> sl.refs[1]]
    ELSE [sl |-> Failed(sl), val |-> [data |-> <<>>, refs |-> <<>>]]

\* the 56 bits of a VarUInteger7 value given as whole bytes
VarUInteger7_from_bytes(bytes) ==
    Bind([i \in 1..(56 - Len(bytes)) |-> 0] \o bytes, LAMBDA all :
        [hi |-> BitsToNat(SubSeq(all, 1, 28)),
         lo |-> BitsToNat(SubSeq(all, 29, 56))])

\* VarUInteger7::read_from: a 3-bit byte count, then that many bytes
VarUInteger7_read_from(sl) ==
    Bind(get_next_int(sl, 3), LAMBDA n :
    Bind(get_next_bits(n.sl, IF n.sl.ok THEN 8 * n.val ELSE 0), LAMBDA b :
        IF b.sl.ok
        THEN [sl |-> b.sl, val |-> VarUInteger7_from_bytes(b.val)]
        ELSE [sl |-> b.sl, val |-> VarUInteger7_default]))

\* Grams::read_from (VarUInteger16)
Grams_read_from(sl) ==
    Bind(get_next_int(sl, 4), LAMBDA n :
        get_next_int(n.sl, IF n.sl.ok THEN 8 * n.val ELSE 0))

\* Grams::read_maybe_from
Grams_read_maybe_from(sl) ==
    Bind(get_next_int(sl, 1), LAMBDA f :
        IF f.sl.ok /\ f.val = 1
        THEN Bind(Grams_read_from(f.sl), LAMBDA g :
                 [sl |-> g.sl, val |-> Some(g.val)])
        ELSE [sl |-> f.sl, val |-> None])

\* UInt256::read_maybe_from
UInt256_read_maybe_from(sl) ==
    Bind(get_next_int(sl, 1), LAMBDA f :
        IF f.sl.ok /\ f.val = 1
        THEN Bind(get_next_int(f.sl, 256), LAMBDA h :
                 [sl |-> h.sl, val |-> Some(h.val)])
        ELSE [sl |-> f.sl, val |-> None])

\* Maybe ^Cell
MaybeRef_read_from(sl) ==
    Bind(get_next_int(sl, 1), LAMBDA f :
        IF f.sl.ok /\ f.val = 1
        THEN Bind(checked_drain_reference(f.sl), LAMBDA c :
                 [sl |-> c.sl, val |-> Some(c.val)])
        ELSE [sl |-> f.sl, val |-> None])

\* Serializable::write_to for AccountStatus: the 2-bit prefix
AccountStatus_write_to(st, b) ==
    CASE st = "AccStateUninit" -> append_bits(b, 0, 2)
      [] st = "AccStateFrozen" -> append_bits(b, 1, 2)
      [] st = "AccStateActive" -> append_bits(b, 2, 2)
      [] st = "AccStateNonexist" -> append_bits(b, 3, 2)

\* flags[0] & 0xC0 of the bytes get_next_bits(2) returns: the two bits read
\* are the two highest bits of the first byte
TopTwoBits(bits) == 128 * bits[1] + 64 * bits[2]

\* a read_from that takes 0x80 for frozen and 0x40 for active
AccountStatus_read_from_swapped(sl) ==
    Bind(get_next_bits(sl, 2), LAMBDA f :
        IF ~f.sl.ok THEN [sl |-> f.sl, val |-> "AccStateUninit"]
        ELSE [sl |-> f.sl,
              val |-> CASE TopTwoBits(f.val) = 0 -> "AccStateUninit"
                        [] TopTwoBits(f.val) = 128 -> "AccStateFrozen"
                        [] TopTwoBits(f.val) = 64 -> "AccStateActive"
                        [] TopTwoBits(f.val) = 192 -> "AccStateNonexist"])

\* Deserializable::read_from for AccountStatus, on AccountStatus::default()
AccountStatus_read_from(sl) ==
    Bind(get_next_bits(sl, 2), LAMBDA f :
        IF ~f.sl.ok THEN [sl |-> f.sl, val |-> "AccStateUninit"]
        ELSE [sl |-> f.sl,
              val |-> CASE TopTwoBits(f.val) = 0 -> "AccStateUninit"
                        [] TopTwoBits(f.val) = 128 -> "AccStateActive"
                        [] TopTwoBits(f.val) = 64 -> "AccStateFrozen"
                        [] TopTwoBits(f.val) = 192 -> "AccStateNonexist"])

\* acc.status(), then the AccountStatus serialized and read back:
\* [status, enc (the bits written), dec (the read: [sl, val])]
status_round_trip(acc) ==
    Bind(into_cell(AccountStatus_write_to(status(acc), BuilderData_new)), LAMBDA e :
        [status |-> status(acc), enc |-> e.cell.data,
         dec |-> AccountStatus_read_from(SliceData_load_cell(e.cell))])

\* CurrencyCollection::construct_from: grams, then the extra-currency
\* dictionary
CurrencyCollection_construct_from(sl) ==
    Bind(Grams_read_from(sl), LAMBDA g :
    Bind(MaybeRef_read_from(g.sl), LAMBDA o :
        [sl |-> o.sl,
         val |-> [grams |-> g.val,
                  other |-> IF IsSome(o.val) THEN BitsToNat(Unwrap(o.val).data)
                            ELSE 0]]))

\* MsgAddressInt::construct_from: this model knows addr_std without anycast
MsgAddressInt_construct_from(sl) ==
    Bind(get_next_int(sl, 2), LAMBDA tag :
    Bind(get_next_int(tag.sl, 1), LAMBDA any :
    Bind(get_next_int(any.sl, 8), LAMBDA wc :
    Bind(get_next_int(wc.sl, 256), LAMBDA adr :
        [sl |-> IF adr.sl.ok /\ (tag.val # 2 \/ any.val # 0)
                THEN Failed(adr.sl) ELSE adr.sl,
         val |-> [workchain_id |-> wc.val, address |-> adr.val]]))))

\* Maybe (## w)
MaybeInt_read_from(sl, w) ==
    Bind(get_next_int(sl, 1), LAMBDA f :
        IF f.sl.ok /\ f.val = 1
        THEN Bind(get_next_int(f.sl, w), LAMBDA v :
                 [sl |-> v.sl, val |-> Some(v.val)])
        ELSE [sl |-> f.sl, val |-> None])

\* StateInit::construct_from
StateInit_construct_from(sl) ==
    Bind(MaybeInt_read_from(sl, 5), LAMBDA sd :
    Bind(MaybeInt_read_from(sd.sl, 2), LAMBDA sp :
    Bind(MaybeRef_read_from(sp.sl), LAMBDA code :
    Bind(MaybeRef_read_from(code.sl), LAMBDA data :
    Bind(MaybeRef_read_from(data.sl), LAMBDA lib :
        [sl |-> lib.sl,
         val |-> [split_depth |-> sd.val, special |-> sp.val,
                  code |-> code.val, data |-> data.val,
                  library |-> lib.val]])))))

\* StorageUsed::read_from, the match on the 3-bit tag: s2 is self with the
\* counters read
StorageUsed_read_extra(s2, tag) ==
    IF ~tag.sl.ok THEN [sl |-> tag.sl, val |-> s2]
    ELSE IF tag.val = 0
    THEN [sl |-> tag.sl, val |-> [s2 EXCEPT !.extra = None]]
    ELSE IF tag.val = 1
    THEN Bind(get_next_int(tag.sl, 256), LAMBDA h :
             [sl |-> h.sl,
              val |-> IF h.sl.ok THEN [s2 EXCEPT !.extra = Some(h.val)] ELSE s2])
    ELSE [sl |-> Failed(tag.sl), val |-> s2]

\* StorageUsed::read_from(&mut self, data): val is self after the call,
\* also when the call fails
StorageUsed_read_from(self, sl) ==
    Bind(VarUInteger7_read_from(sl), LAMBDA c :
    Bind(IF c.sl.ok THEN [self EXCEPT !.cells = c.val] ELSE self, LAMBDA s1 :
    Bind(VarUInteger7_read_from(c.sl), LAMBDA b :
    Bind(IF b.sl.ok THEN [s1 EXCEPT !.bits = b.val] ELSE s1, LAMBDA s2 :
        StorageUsed_read_extra(s2, get_next_int(b.sl, 3))))))

\* StorageUsedShort::read_from(&mut self, data): val is self after the
\* call, also when the call fails
StorageUsedShort_read_from(self, sl) ==
    Bind(VarUInteger7_read_from(sl), LAMBDA c :
    Bind(IF c.sl.ok THEN [self EXCEPT !.cells = c.val] ELSE self, LAMBDA s1 :
    Bind(VarUInteger7_read_from(c.sl), LAMBDA b :
        [sl |-> b.sl,
         val |-> IF b.sl.ok THEN [s1 EXCEPT !.bits = b.val] ELSE s1])))

\* StorageInfo::read_from(&mut self, cell): val is self after the call,
\* also when the call fails
StorageInfo_read_from(self, sl) ==
    Bind(StorageUsed_read_from(self.used, sl), LAMBDA u :
    Bind([self EXCEPT !.used = u.val], LAMBDA s1 :
    Bind(get_next_int(u.sl, 32), LAMBDA lp :
    Bind(IF lp.sl.ok THEN [s1 EXCEPT !.last_paid = lp.val] ELSE s1, LAMBDA s2 :
    Bind(Grams_read_maybe_from(lp.sl), LAMBDA dp :
        [sl |-> dp.sl,
         val |-> IF dp.sl.ok THEN [s2 EXCEPT !.due_payment = dp.val]
                 ELSE s2])))))

\* Deserializable::construct_from for StorageInfo: default, then read_from
StorageInfo_construct_from(sl) == StorageInfo_read_from(StorageInfo_default, sl)

\* AccountState::construct_from
AccountState_construct_from(sl) ==
    Bind(get_next_int(sl, 1), LAMBDA b1 :
        IF b1.sl.ok /\ b1.val = 1
        THEN Bind(StateInit_construct_from(b1.sl), LAMBDA si :
                 [sl |-> si.sl, val |-> AccountActive(si.val)])
        ELSE Bind(get_next_int(b1.sl, 1), LAMBDA b2 :
                 IF b2.sl.ok /\ b2.val = 1
                 THEN Bind(get_next_int(b2.sl, 256), LAMBDA h :
                          [sl |-> h.sl, val |-> AccountFrozen(h.val)])
                 ELSE [sl |-> b2.sl, val |-> AccountUninit]))

\* Account::write_original_format
write_original_format(acc, b) ==
    IF IsSome(acc)
    THEN LET stuff == Unwrap(acc) IN
         AccountState_write_to(stuff.storage.state,
             CurrencyCollection_write_to(stuff.storage.balance,
                 append_bits(
                     StorageInfo_write_to(stuff.storage_stat,
                         MsgAddressInt_write_to(stuff.addr, append_bits(b, 1, 1))),
                     stuff.storage.last_trans_lt, 64)))
    ELSE append_bits(b, 0, 1)

\* Account::read_original_format
read_original_format(sl) ==
    Bind(MsgAddressInt_construct_from(sl), LAMBDA addr :
    Bind(StorageInfo_construct_from(addr.sl), LAMBDA stat :
    Bind(get_next_int(stat.sl, 64), LAMBDA lt :
    Bind(CurrencyCollection_construct_from(lt.sl), LAMBDA bal :
    Bind(AccountState_construct_from(bal.sl), LAMBDA st :
        [sl |-> st.sl,
         val |-> Account_with_stuff(
                     [addr |-> addr.val, storage_stat |-> stat.val,
                      storage |-> [AccountStorage_default EXCEPT
                                      !.last_trans_lt = lt.val,
                                      !.balance = bal.val,
                                      !.state = st.val]])])))))

\* Account::read_version
read_version(sl, version) ==
    Bind(MsgAddressInt_construct_from(sl), LAMBDA addr :
    Bind(StorageInfo_construct_from(addr.sl), LAMBDA stat :
    Bind(get_next_int(stat.sl, 64), LAMBDA lt :
    Bind(CurrencyCollection_construct_from(lt.sl), LAMBDA bal :
    Bind(AccountState_construct_from(bal.sl), LAMBDA st :
    Bind(UInt256_read_maybe_from(st.sl), LAMBDA ich :
        [sl |-> ich.sl,
         val |-> Account_with_stuff(
                     [addr |-> addr.val, storage_stat |-> stat.val,
                      storage |-> [last_trans_lt |-> lt.val,
                                   balance |-> bal.val, state |-> st.val,
                                   init_code_hash |-> ich.val]])]))))))

\* Serializable::write_to for Account
Account_write_to(acc, b) ==
    IF IsSome(acc) /\ IsSome(Unwrap(acc).storage.init_code_hash)
    THEN AccountStuff_write_to(Unwrap(acc), append_bits(b, 1, 4))
    ELSE write_original_format(acc, b)

\* Serializable::serialize for Account
Account_serialize(acc) == into_cell(Account_write_to(acc, BuilderData_new))

\* the result of a format reader as the result of construct_from
Account_read_result(r) ==
    [ok |-> r.sl.ok, val |-> IF r.sl.ok THEN r.val ELSE AccountNone, sl |-> r.sl]

\* the match that takes every tag other than 1 for the absent account
Account_read_tagged_default(tag) ==
    IF ~tag.sl.ok THEN [ok |-> FALSE, val |-> AccountNone, sl |-> tag.sl]
    ELSE IF tag.val = 1 THEN Account_read_result(read_version(tag.sl, tag.val))
    ELSE [ok |-> TRUE, val |-> AccountNone, sl |-> tag.sl]

\* Account::construct_from, the match on the 3-bit tag
Account_read_tagged(tag) ==
    IF ~tag.sl.ok THEN [ok |-> FALSE, val |-> AccountNone, sl |-> tag.sl]
    ELSE IF tag.val = 0 THEN [ok |-> TRUE, val |-> AccountNone, sl |-> tag.sl]
    ELSE IF tag.val = 1 THEN Account_read_result(read_version(tag.sl, tag.val))
    ELSE [ok |-> FALSE, val |-> AccountNone, sl |-> Failed(tag.sl)]

\* Deserializable::construct_from for Account: [ok, val, sl], val being
\* the account returned when ok
Account_construct_from(sl) ==
    Bind(get_next_int(sl, 1), LAMBDA b1 :
        IF ~b1.sl.ok THEN [ok |-> FALSE, val |-> AccountNone, sl |-> b1.sl]
        ELSE IF b1.val = 1 THEN Account_read_result(read_original_format(b1.sl))
        ELSE IF remaining_bits(b1.sl) = 0
        THEN [ok |-> TRUE, val |-> AccountNone, sl |-> b1.sl]
        ELSE Account_read_tagged(get_next_int(b1.sl, 3)))

\* Account::update_config_smc, config being config.config_params.data():
\* the first reference of the data is replaced by the root of the config
update_config_smc(acc, config) ==
    IF ~IsSome(state_init(acc)) THEN Err(acc)
    ELSE IF ~IsSome(Unwrap(state_init(acc)).data) THEN Err(acc)
    ELSE Bind(checked_drain_reference(
                  SliceData_load_cell(Unwrap(Unwrap(state_init(acc)).data))),
              LAMBDA d :
             IF ~d.sl.ok THEN Err(acc)
             ELSE IF ~IsSome(config) THEN Err(acc)
             ELSE Ok(TRUE, set_data(acc,
                        [data |-> d.sl.data,
                         refs |-> <<Unwrap(config)>> \o d.sl.refs]).acc))

\* PartialEq for Account
Account_eq(a, b) ==
    IF IsSome(a) /\ IsSome(b)
    THEN /\ Unwrap(a).addr = Unwrap(b).addr
         /\ Unwrap(a).storage_stat = Unwrap(b).storage_stat
         /\ Unwrap(a).storage = Unwrap(b).storage
    ELSE ~IsSome(a) /\ ~IsSome(b)

-----------------------------------------------------------------------------
(* ChildCell<Account>, the type of the account field of a ShardAccount.    *)
(* Its code is in types.rs, outside the source tree; it is modelled from   *)
(* the specification: a ChildCell wraps a reference to the root node of a  *)
(* serialized account, reads the account by deserializing that node on     *)
(* demand, writes by serializing and replacing the reference, and is       *)
(* compared by the content hash of the root node.  A ChildCell is [cell]:  *)
(* Some(root), or None while no reference was given, and then the root     *)
(* node is that of the default account.                                    *)

\* Account::default().serialize(): the cell of the absent account
DefaultAccountCell == Account_serialize(AccountNone).cell

\* ChildCell::default
ChildCell_default == [cell |-> None]

\* ChildCell::with_cell
ChildCell_with_cell(cell) == [cell |-> Some(cell)]

\* ChildCell::with_struct: [ok, val]
ChildCell_with_struct(value) ==
    Bind(Account_serialize(value), LAMBDA r :
        [ok |-> r.ok,
         val |-> IF r.ok THEN ChildCell_with_cell(r.cell) ELSE ChildCell_default])

\* ChildCell::cell: the root node referenced
ChildCell_cell(self) ==
    IF IsSome(self.cell) THEN Unwrap(self.cell) ELSE DefaultAccountCell

\* ChildCell::set_cell
ChildCell_set_cell(self, cell) == [self EXCEPT !.cell = Some(cell)]

\* ChildCell::read_struct: [ok, val]
ChildCell_read_struct(self) ==
    Bind(Account_construct_from(SliceData_load_cell(ChildCell_cell(self))),
         LAMBDA r : [ok |-> r.ok, val |-> r.val])

\* ChildCell::write_struct: [ok, val], val being self afterwards
ChildCell_write_struct(self, value) ==
    Bind(Account_serialize(value), LAMBDA r :
        [ok |-> r.ok,
         val |-> IF r.ok THEN [self EXCEPT !.cell = Some(r.cell)] ELSE self])

\* ChildCell::read_from_reference: [sl, val], val being self afterwards
ChildCell_read_from_reference(self, sl) ==
    Bind(checked_drain_reference(sl), LAMBDA a :
        [sl |-> a.sl,
         val |-> IF a.sl.ok THEN [self EXCEPT !.cell = Some(a.val)] ELSE self])

\* a comparison of the references held, not of the hashes of the root nodes
ChildCell_eq_by_reference(a, b) == a.cell = b.cell

\* PartialEq for ChildCell: the content hashes of the root nodes
ChildCell_eq(a, b) ==
    repr_hash(ChildCell_cell(a)) = repr_hash(ChildCell_cell(b))

-----------------------------------------------------------------------------
(* ShardAccount: account_descr$_ account:^Account last_trans_hash:bits256  *)
(*   last_trans_lt:uint64.                                                 *)

\* ShardAccount::default (derived)
ShardAccount_default ==
    [account |-> ChildCell_default, last_trans_hash |-> 0, last_trans_lt |-> 0]

\* ShardAccount::with_account_root
ShardAccount_with_account_root(account_root, last_trans_hash, last_trans_lt) ==
    [account |-> ChildCell_with_cell(account_root),
     last_trans_hash |-> last_trans_hash, last_trans_lt |-> last_trans_lt]

\* ShardAccount::with_params: [ok, val]
ShardAccount_with_params(acc, last_trans_hash, last_trans_lt) ==
    Bind(ChildCell_with_struct(acc), LAMBDA r :
        [ok |-> r.ok,
         val |-> [account |-> r.val, last_trans_hash |-> last_trans_hash,
                  last_trans_lt |-> last_trans_lt]])

\* ShardAccount::read_account: [ok, val]
ShardAccount_read_account(self) == ChildCell_read_struct(self.account)

\* ShardAccount::write_account: [ok, val], val being self afterwards
ShardAccount_write_account(self, value) ==
    Bind(ChildCell_write_struct(self.account, value), LAMBDA r :
        [ok |-> r.ok, val |-> [self EXCEPT !.account = r.val]])

\* ShardAccount::set_last_trans_hash, ShardAccount::set_last_trans_lt
set_last_trans_hash(self, hash) == [self EXCEPT !.last_trans_hash = hash]
set_last_trans_lt(self, lt) == [self EXCEPT !.last_trans_lt = lt]

\* ShardAccount::last_trans_hash_mut, ShardAccount::last_trans_lt_mut, the
\* caller storing a value through the reference it is handed
last_trans_hash_mut(self, hash) == [self EXCEPT !.last_trans_hash = hash]
last_trans_lt_mut(self, lt) == [self EXCEPT !.last_trans_lt = lt]

\* ShardAccount::set_account_cell
set_account_cell(self, cell) ==
    [self EXCEPT !.account = ChildCell_set_cell(self.account, cell)]

\* ShardAccount::account_cell
account_cell(self) == ChildCell_cell(self.account)

\* Serializable::write_to for ShardAccount
ShardAccount_write_to(self, b) ==
    append_bits(
        UInt256_write_to(self.last_trans_hash,
            checked_append_reference(b, ChildCell_cell(self.account))),
        self.last_trans_lt, 64)

\* ShardAccount::read_from(&mut self, cell): val is self after the call,
\* also when the call fails
ShardAccount_read_from(self, sl) ==
    Bind(ChildCell_read_from_reference(self.account, sl), LAMBDA a :
    Bind([self EXCEPT !.account = a.val], LAMBDA s1 :
    Bind(get_next_int(a.sl, 256), LAMBDA h :
    Bind(IF h.sl.ok THEN [s1 EXCEPT !.last_trans_hash = h.val] ELSE s1, LAMBDA s2 :
    Bind(get_next_int(h.sl, 64), LAMBDA lt :
        [sl |-> lt.sl,
         val |-> IF lt.sl.ok THEN [s2 EXCEPT !.last_trans_lt = lt.val]
                 ELSE s2])))))

\* Serializable::serialize, then Deserializable::construct_from_cell, for a
\* ShardAccount: [ok, val]
ShardAccount_round_trip(self) ==
    Bind(into_cell(ShardAccount_write_to(self, BuilderData_new)), LAMBDA e :
        IF ~e.ok THEN [ok |-> FALSE, val |-> ShardAccount_default]
        ELSE Bind(ShardAccount_read_from(ShardAccount_default,
                                         SliceData_load_cell(e.cell)),
                  LAMBDA d : [ok |-> d.sl.ok, val |-> d.val]))

\* PartialEq for ShardAccount (derived): field by field
ShardAccount_eq(a, b) ==
    /\ ChildCell_eq(a.account, b.account)
    /\ a.last_trans_hash = b.last_trans_hash
    /\ a.last_trans_lt = b.last_trans_lt

-----------------------------------------------------------------------------
(* Shard state, usage tree and Merkle proof, as prepare_proof uses them.   *)
(* The state root holds the accounts dictionary in its first reference.    *)
(* The dictionary is a binary trie on the bits of the account id, lowest   *)
(* bit first: a fork (bit 0, two children) or a leaf (bit 1, the id, then  *)
(* the ShardAccount).  A usage tree is the set of hashes of the cells      *)
(* loaded through it.                                                      *)

\* constructor tag of ShardStateUnsplit, in TagBits bits
ShardStateTag == 144
TagBits == 8
\* width of the id a dictionary leaf carries
KeyBits == 16

\* Account::get_id
get_id(acc) == IF IsSome(acc) THEN Some(get_address(Unwrap(acc).addr)) ELSE None

\* the bit of id the fork at depth d branches on
KeyBit(id, d) == (id \div (2 ^ d)) % 2

\* leaf and fork of the accounts dictionary
DictLeaf(id, sa) ==
    into_cell(ShardAccount_write_to(sa,
        append_bits(append_bits(BuilderData_new, 1, 1), id, KeyBits))).cell
DictFork(left, right) == [data |-> <<0>>, refs |-> <<left, right>>]

\* the cell of the accounts: the bit 0, or the bit 1 and the dictionary root
ShardAccounts_empty == [data |-> <<0>>, refs |-> <<>>]
ShardAccounts_with_root(root) == [data |-> <<1>>, refs |-> <<root>>]

\* ShardStateUnsplit as a cell: the tag, the accounts, the rest of the state
ShardStateUnsplit_cell(accounts, rest) ==
    [data |-> ToBits(ShardStateTag, TagBits), refs |-> <<accounts, rest>>]

\* UsageTree: loading a cell through the tree records its hash
UsageTree_with_root(root) == {repr_hash(root)}
Visit(usage, cell) == usage \cup {repr_hash(cell)}

\* ShardStateUnsplit::construct_from_cell: [ok, accounts]
ShardStateUnsplit_construct_from_cell(cell) ==
    Bind(get_next_int(SliceData_load_cell(cell), TagBits), LAMBDA t :
    Bind(checked_drain_reference(t.sl), LAMBDA a :
        [ok |-> a.sl.ok /\ t.val = ShardStateTag, accounts |-> a.val]))

\* the walk of the trie for id from node, at depth d:
\* [ok, found, value (the slice of the ShardAccount), usage]
RECURSIVE Dict_get(_, _, _, _)
Dict_get(node, id, d, usage) ==
    Bind(get_next_int(SliceData_load_cell(node), 1), LAMBDA f :
        IF ~f.sl.ok
        THEN [ok |-> FALSE, found |-> FALSE, value |-> f.sl, usage |-> Visit(usage, node)]
        ELSE IF f.val = 0
        THEN IF Len(node.refs) = 2
             THEN Dict_get(node.refs[KeyBit(id, d) + 1], id, d + 1, Visit(usage, node))
             ELSE [ok |-> FALSE, found |-> FALSE, value |-> Failed(f.sl),
                   usage |-> Visit(usage, node)]
        ELSE Bind(get_next_int(f.sl, KeyBits), LAMBDA k :
                 [ok |-> k.sl.ok, found |-> k.sl.ok /\ k.val = id, value |-> k.sl,
                  usage |-> Visit(usage, node)]))

\* ShardStateUnsplit::read_accounts, then ShardAccounts::get_serialized(id)
ShardAccounts_get_serialized(accounts, id, usage) ==
    Bind(MaybeRef_read_from(SliceData_load_cell(accounts)), LAMBDA r :
        IF ~r.sl.ok
        THEN [ok |-> FALSE, found |-> FALSE, value |-> r.sl,
              usage |-> Visit(usage, accounts)]
        ELSE IF ~IsSome(r.val)
        THEN [ok |-> TRUE, found |-> FALSE, value |-> r.sl,
              usage |-> Visit(usage, accounts)]
        ELSE Dict_get(Unwrap(r.val), id, 0, Visit(usage, accounts)))

\* a pruned branch: the placeholder that carries only the hash of the
\* subtree it stands for
PrunedBranch(cell) == [pruned_hash |-> repr_hash(cell)]
IsPruned(node) == DOMAIN node = {"pruned_hash"}

\* a proof that keeps every cell: nothing is pruned
create_unpruned(cell, usage) == cell

\* MerkleProof::create_by_usage_tree: the cells the usage tree holds are kept
\* with their own bits, every other subtree becomes a pruned branch
RECURSIVE create_by_usage_tree(_, _)
create_by_usage_tree(cell, usage) ==
    IF repr_hash(cell) \in usage
    THEN [data |-> cell.data,
          refs |-> [i \in 1..Len(cell.refs) |->
                       create_by_usage_tree(cell.refs[i], usage)]]
    ELSE PrunedBranch(cell)

\* the representation hash of a cell of a proof: a pruned branch has the
\* hash it carries
RECURSIVE proof_hash(_)
proof_hash(node) ==
    IF IsPruned(node) THEN node.pruned_hash
    ELSE (DataHash(node.data) + 101 * Len(node.refs)
            + SumOver(1..Len(node.refs),
                      [i \in 1..Len(node.refs) |->
                          ((211 * i + 1) * proof_hash(node.refs[i])) % HashMod]))
         % HashMod

\* results of prepare_proof: the failure kinds, and the serialized
\* MerkleProof (the hash of the root it proves and the pruned structure)
ProofErr(kind) == [ok |-> FALSE, kind |-> kind, hash |-> 0, proof |-> <<>>, usage |-> {}]
ProofOk(state_root, usage) ==
    [ok |-> TRUE, kind |-> "", hash |-> repr_hash(state_root),
     proof |-> <<create_by_usage_tree(state_root, usage)>>, usage |-> usage]

\* the tail of prepare_proof once the entry of the account is found: the
\* account of the entry is read, which loads its cell, and the result of
\* the read is dropped
prepare_proof_entry(state_root, g) ==
    Bind(ShardAccount_read_from(ShardAccount_default, g.value), LAMBDA sa :
        IF ~sa.sl.ok THEN ProofErr("Deserialize")
        ELSE Bind(ShardAccount_read_account(sa.val), LAMBDA a :
                 IF ~a.ok THEN ProofErr("Deserialize")
                 ELSE ProofOk(state_root, Visit(g.usage, account_cell(sa.val)))))

\* Account::prepare_proof
prepare_proof(acc, state_root) ==
    IF ~IsSome(get_id(acc)) THEN ProofErr("InvalidData")
    ELSE Bind(ShardStateUnsplit_construct_from_cell(state_root), LAMBDA ss :
        IF ~ss.ok THEN ProofErr("Deserialize")
        ELSE Bind(ShardAccounts_get_serialized(ss.accounts, Unwrap(get_id(acc)),
                                               UsageTree_with_root(state_root)),
                  LAMBDA g :
                      IF ~g.ok THEN ProofErr("Deserialize")
                      ELSE IF ~g.found THEN ProofErr("InvalidArg")
                      ELSE prepare_proof_entry(state_root, g)))

-----------------------------------------------------------------------------
(* The values the runs draw from *)

LeafA == [data |-> ToBits(1, 8), refs |-> <<>>]
CodeX == [data |-> ToBits(2, 8), refs |-> <<LeafA>>]

\* the state_inits offered to activation and to the constructors
StateInits ==
    {StateInit_default,
     [StateInit_default EXCEPT !.code = Some(CodeX)],
     [StateInit_default EXCEPT !.code = Some(CodeX), !.data = Some(LeafA)]}

\* depth of the chain whose per-path node count first passes 7 bytes:
\* (4^(d+1) - 1) / 3 nodes are counted for depth d, and 2^56 = 4^28
ChainDepth == 28

\* a chain of cells of w bits each, every cell holding 4 references to the
\* next one, down to a leaf
RECURSIVE ChainCell(_, _)
ChainCell(d, w) ==
    IF d = 0 THEN [data |-> ToBits(0, w), refs |-> <<>>]
    ELSE [data |-> ToBits(0, w), refs |-> <<ChainCell(d - 1, w)>>, times |-> 4]

\* codes with heavily shared nodes: the per-path cell count passes 7 bytes
\* and the bit count is 0; both counts pass 7 bytes; both counts fit, the
\* cell count only just
HeavyCode == ChainCell(ChainDepth, 0)
HeavyBitsCode == ChainCell(ChainDepth, 1)
WideCode == ChainCell(ChainDepth - 1, 0)

\* the account address: the hash of the state_init that carries only code
Addrs ==
    {[workchain_id |-> 0, address |-> StateInit_hash(si).val] :
        si \in {x \in StateInits : IsSome(x.code) /\ ~IsSome(x.data)}}

\* the addresses given to set_addr: the hash of every state_init with code
SetAddrs ==
    {[workchain_id |-> 0, address |-> StateInit_hash(si).val] :
        si \in {x \in StateInits : IsSome(x.code)}}

\* the hashes given to set_init_code_hash
InitCodeHashes == {repr_hash(LeafA)}

\* the values given to set_last_paid and set_due_payment
LastPaids == {0, 7}
DuePayments == {None} \cup {Some(g) : g \in 0..MaxGrams}

\* config.config_params.data() of the configs given to update_config_smc:
\* an empty dictionary, and one with the root CodeX
Configs == {None, Some(CodeX)}

Balances == {[grams |-> g, other |-> e] : g \in 0..MaxGrams, e \in 0..MaxExtra}

NoCall == [op |-> "none", arg |-> None, ok |-> TRUE, ret |-> TRUE,
           pre |-> AccountNone]

\* no serialize call yet, no construct_from call yet
NoEnc == [done |-> FALSE, ok |-> FALSE, cell |-> [data |-> <<>>, refs |-> <<>>]]
NoDec == [done |-> FALSE, ok |-> FALSE, val |-> AccountNone,
          sl |-> [ok |-> TRUE, data |-> <<>>, refs |-> <<>>]]

\* no decode of an encoding with trailing bits yet
NoTail == [done |-> FALSE, tail |-> <<>>, ok |-> FALSE, val |-> AccountNone,
           sl |-> [ok |-> TRUE, data |-> <<>>, refs |-> <<>>]]

\* the bits that follow the encoding of an account in a slice
Tails == {<<0>>, <<1>>, <<0, 0, 0>>, <<0, 0, 1>>, <<1, 1, 0, 1>>}

\* no decode input chosen, no decode call yet
NoIn == [kind |-> "none", tag |-> 0, data |-> <<>>, refs |-> <<>>]
NoOut == [op |-> "none", pre |-> None, ok |-> FALSE, val |-> None,
          sl |-> [ok |-> TRUE, data |-> <<>>, refs |-> <<>>]]

\* no call on the ShardAccount yet
NoShardCall == [op |-> "none", arg |-> None, ok |-> TRUE, val |-> None,
                pre |-> ShardAccount_default]

\* no constructor called yet
NoBuilt == [op |-> "none", addr |-> None, init |-> None, flag |-> FALSE,
            msg |-> None, out |-> None]

\* the messages given to from_message_by_init_code_hash: with or without an
\* internal header, with or without a state_init
Messages ==
    {[header |-> h, init |-> i] :
        h \in {None} \cup
              {Some([value |-> v, dst |-> d, bounce |-> b]) :
                  v \in Balances, d \in SetAddrs, b \in BOOLEAN},
        i \in {None} \cup {Some(si) : si \in StateInits}}

\* the u64 values given to with_values_checked: small ones, the largest of
\* 7 bytes, 2^56 and 2^57
U64s ==
    {VU7(0), VU7(9), VarUInteger7_MAX, [hi |-> Limb, lo |-> 0],
     [hi |-> 2 * Limb, lo |-> 0]}

\* no state root chosen, no prepare_proof call yet
NoRoot == [data |-> <<>>, refs |-> <<>>]
NoProof == [done |-> FALSE, ok |-> FALSE, kind |-> "", hash |-> 0,
            proof |-> <<>>, usage |-> {}]

-----------------------------------------------------------------------------
(* Node graphs for the footprint runs.  A graph gives each node 1..NumNodes *)
(* a bit length and a sequence of lower-numbered children; the node's bits *)
(* spell its number, so two nodes of length 0 with the same children are   *)
(* one and the same cell.                                                  *)

\* the child sequences node n may have: lower-numbered nodes only
RefSeqs(n) ==
    UNION {[1..k -> 1..(n - 1)] : k \in 0..MaxEdges}

RECURSIVE EdgeCount(_, _)
EdgeCount(rs, n) == IF n = 0 THEN 0 ELSE Len(rs[n]) + EdgeCount(rs, n - 1)

\* the child sequences of nodes 1..n, with at most MaxEdges references in all
RECURSIVE ShapesUpTo(_)
ShapesUpTo(n) ==
    IF n = 0 THEN {<<>>}
    ELSE {rs \o <<r>> : rs \in ShapesUpTo(n - 1),
                        r \in {q \in RefSeqs(n) : Len(q) <= MaxEdges}}
         \cap {rs \in Seq(Seq(1..n)) : EdgeCount(rs, n) <= MaxEdges}

Shapes == ShapesUpTo(NumNodes)

\* the nodes of a graph are all empty, or node n holds 4 + n bits
Dags ==
    {[n \in 1..NumNodes |-> [bits |-> IF empty THEN 0 ELSE 4 + n, refs |-> rs[n]]] :
        rs \in Shapes, empty \in BOOLEAN}

RECURSIVE CellOf(_, _)
CellOf(d, n) ==
    [data |-> ToBits(n, d[n].bits),
     refs |-> [i \in 1..Len(d[n].refs) |-> CellOf(d, d[n].refs[i])]]

\* the accumulators the runs start from: empty, and at or next to the
\* 7-byte maximum
StartShorts ==
    {StorageUsedShort_default,
     StorageUsedShort_with_values_checked(
         [hi |-> Limb - 1, lo |-> Limb - 2], VarUInteger7_MAX).val}

NoCalc == [done |-> FALSE, root |-> 0,
           used |-> [ok |-> TRUE, val |-> StorageUsed_default],
           ushort |-> [ok |-> TRUE, val |-> StorageUsedShort_default]]

InitFootprint ==
    /\ dag \in Dags
    /\ short \in StartShorts
    /\ short0 = short
    /\ roots = <<>>
    /\ calc = NoCalc
    /\ account = AccountNone
    /\ last = NoCall
    /\ frozen_from = None
    /\ ncalls = 0
    /\ cx = AccountNone
    /\ cenc = NoEnc
    /\ cdec = NoDec
    /\ din = NoIn
    /\ dout = NoOut
    /\ pacc = AccountNone
    /\ proot = NoRoot
    /\ pout = NoProof
    /\ shard = ShardAccount_default
    /\ slast = NoShardCall
    /\ scalls = 0
    /\ built = NoBuilt
    /\ ctrail = NoTail

AppendRoot(r) ==
    /\ Len(roots) < MaxAppends
    /\ ~calc.done
    /\ short' = StorageUsedShort_append(short, CellOf(dag, r))
    /\ roots' = roots \o <<r>>
    /\ UNCHANGED <<dag, short0, calc>>
    /\ UNCHANGED avars
    /\ UNCHANGED cvars
    /\ UNCHANGED dvars
    /\ UNCHANGED pvars
    /\ UNCHANGED svars
    /\ UNCHANGED bvars
    /\ UNCHANGED tvars

CalculateForStruct(r) ==
    /\ roots = <<>>
    /\ ~calc.done
    /\ calc' = [done |-> TRUE, root |-> r,
                used |-> StorageUsed_calculate_for_struct(
                             [ok |-> TRUE, cell |-> CellOf(dag, r)]),
                ushort |-> StorageUsedShort_calculate_for_struct(
                             [ok |-> TRUE, cell |-> CellOf(dag, r)])]
    /\ UNCHANGED <<dag, short, short0, roots>>
    /\ UNCHANGED avars
    /\ UNCHANGED cvars
    /\ UNCHANGED dvars
    /\ UNCHANGED pvars
    /\ UNCHANGED svars
    /\ UNCHANGED bvars
    /\ UNCHANGED tvars

NextFootprint ==
    \/ \E r \in 1..NumNodes : AppendRoot(r)
    \/ \E r \in 1..NumNodes : CalculateForStruct(r)

SpecFootprint == InitFootprint /\ [][NextFootprint]_vars

\* the model's hash tells apart the cells of a graph
HashInjectiveOnDag ==
    \A m, n \in 1..NumNodes :
        repr_hash(CellOf(dag, m)) = repr_hash(CellOf(dag, n))
            => CellOf(dag, m) = CellOf(dag, n)

-----------------------------------------------------------------------------
(* Account runs: an account made by a constructor, then any sequence of    *)
(* method calls.                                                           *)

InitAccounts ==
    {AccountNone}
    \cup {Account_with_address_and_ballance(a, b) : a \in Addrs, b \in Balances}
    \cup {Account_active_by_init_code_hash(a, b, 0, si, f).acc :
             a \in Addrs, b \in Balances, si \in StateInits, f \in BOOLEAN}
    \cup {Account_frozen(a, 0, 0, StateInit_hash(si).val, None, b) :
             a \in Addrs, b \in Balances, si \in StateInits}
    \cup {Account_with_storage(
              a,
              [used |-> [cells |-> VU7(1), bits |-> VU7(100),
                         extra |-> Some(repr_hash(LeafA))],
               last_paid |-> 0, due_payment |-> None],
              AccountStorage_active_by_init_code_hash(
                  0, CurrencyCollection_default,
                  [StateInit_default EXCEPT !.code = Some(CodeX)], FALSE)) :
             a \in Addrs}
    \cup {Account_active_by_init_code_hash(
              a, CurrencyCollection_default, 0,
              [StateInit_default EXCEPT !.code = Some(CodeX),
                                        !.data = Some(CodeX)], FALSE).acc :
             a \in Addrs}
    \cup {Account_with_storage(
              a,
              [used |-> [cells |-> VU7(1), bits |-> VU7(100),
                         extra |-> Some(repr_hash(LeafA))],
               last_paid |-> 0, due_payment |-> None],
              AccountStorage_active_by_init_code_hash(
                  0, CurrencyCollection_default,
                  [StateInit_default EXCEPT !.code = Some(c)], FALSE)) :
             a \in Addrs, c \in {HeavyCode, HeavyBitsCode, WideCode}}

Init ==
    /\ account \in InitAccounts
    /\ last = NoCall
    /\ frozen_from = None
    /\ ncalls = 0
    /\ dag = <<>>
    /\ short = StorageUsedShort_default
    /\ short0 = StorageUsedShort_default
    /\ roots = <<>>
    /\ calc = NoCalc
    /\ cx = AccountNone
    /\ cenc = NoEnc
    /\ cdec = NoDec
    /\ din = NoIn
    /\ dout = NoOut
    /\ pacc = AccountNone
    /\ proot = NoRoot
    /\ pout = NoProof
    /\ shard = ShardAccount_default
    /\ slast = NoShardCall
    /\ scalls = 0
    /\ built = NoBuilt
    /\ ctrail = NoTail

\* the call op(arg) with result r
Call(op, arg, r) ==
    /\ ncalls < MaxCalls
    /\ ncalls' = ncalls + 1
    /\ account' = r.acc
    /\ last' = [op |-> op, arg |-> arg, ok |-> r.ok, ret |-> r.ret, pre |-> account]
    /\ UNCHANGED fvars
    /\ UNCHANGED cvars
    /\ UNCHANGED dvars
    /\ UNCHANGED pvars
    /\ UNCHANGED svars
    /\ UNCHANGED bvars
    /\ UNCHANGED tvars

TryActivate(si, flag) ==
    /\ Call("try_activate_by_init_code_hash", [si |-> si, flag |-> flag],
            try_activate_by_init_code_hash(account, si, flag))
    /\ UNCHANGED frozen_from

TryFreeze ==
    /\ Call("try_freeze", None, try_freeze(account))
    /\ frozen_from' = IF IsSome(state_init(account)) THEN state_init(account)
                      ELSE frozen_from

UninitAccount ==
    /\ Call("uninit_account", None, uninit_account(account))
    /\ UNCHANGED frozen_from

SetData(c) ==
    /\ Call("set_data", c, set_data(account, c))
    /\ UNCHANGED frozen_from

SetCode(c) ==
    /\ Call("set_code", c, set_code(account, c))
    /\ UNCHANGED frozen_from

SetLibraryFlag(h, public) ==
    /\ Call("set_library_flag", [hash |-> h, public |-> public],
            set_library_flag(account, h, public))
    /\ UNCHANGED frozen_from

SetLastPaid(t) ==
    /\ Call("set_last_paid", t, set_last_paid(account, t))
    /\ UNCHANGED frozen_from

SetDuePayment(g) ==
    /\ Call("set_due_payment", g, set_due_payment(account, g))
    /\ UNCHANGED frozen_from

StateInitMut(si) ==
    /\ Call("state_init_mut", si, state_init_mut(account, si))
    /\ UNCHANGED frozen_from

UpdateConfigSmc(config) ==
    /\ Call("update_config_smc", config, update_config_smc(account, config))
    /\ UNCHANGED frozen_from

FreezeAccount ==
    /\ Call("freeze_account", None, freeze_account(account))
    /\ frozen_from' = IF IsSome(state_init(account)) THEN state_init(account)
                      ELSE frozen_from

SetLibrary(c, public) ==
    /\ Call("set_library", [code |-> c, public |-> public],
            set_library(account, c, public))
    /\ UNCHANGED frozen_from

DeleteLibrary(h) ==
    /\ Call("delete_library", h, delete_library(account, h))
    /\ UNCHANGED frozen_from

SetBalance(b) ==
    /\ Call("set_balance", b, set_balance(account, b))
    /\ UNCHANGED frozen_from

AddFunds(b) ==
    /\ Call("add_funds", b, add_funds(account, b))
    /\ UNCHANGED frozen_from

SubFunds(b) ==
    /\ Call("sub_funds", b, sub_funds(account, b))
    /\ UNCHANGED frozen_from

SetLastTrTime(t) ==
    /\ Call("set_last_tr_time", t, set_last_tr_time(account, t))
    /\ UNCHANGED frozen_from

UpdateStorageStat ==
    /\ Call("update_storage_stat", None, update_storage_stat(account))
    /\ UNCHANGED frozen_from

UpdateStorageStatFast ==
    /\ Call("update_storage_stat_fast", None, update_storage_stat_fast(account))
    /\ UNCHANGED frozen_from

\* account.status(), and the status through its own codec
Status ==
    /\ Call("status", None, Ok(status_round_trip(account), account))
    /\ UNCHANGED frozen_from

SetAddr(addr) ==
    /\ Call("set_addr", addr, set_addr(account, addr))
    /\ UNCHANGED frozen_from

SetInitCodeHash(h) ==
    /\ Call("set_init_code_hash", h, set_init_code_hash(account, h))
    /\ UNCHANGED frozen_from

Next ==
    \/ \E si \in StateInits, flag \in BOOLEAN : TryActivate(si, flag)
    \/ TryFreeze
    \/ UninitAccount
    \/ SetData(LeafA)
    \/ SetCode(LeafA)
    \/ \E c \in {LeafA, CodeX} : SetLibrary(c, TRUE)
    \/ DeleteLibrary(repr_hash(LeafA))
    \/ \E b \in Balances : SetBalance(b)
    \/ \E b \in Balances : AddFunds(b)
    \/ \E b \in Balances : SubFunds(b)
    \/ \E t \in 0..MaxLt : SetLastTrTime(t)
    \/ UpdateStorageStat
    \/ \E addr \in SetAddrs : SetAddr(addr)
    \/ Status
    \/ UpdateStorageStatFast
    \/ \E h \in InitCodeHashes : SetInitCodeHash(h)
    \/ \E h \in InitCodeHashes, public \in BOOLEAN : SetLibraryFlag(h, public)
    \/ \E t \in LastPaids : SetLastPaid(t)
    \/ \E g \in DuePayments : SetDuePayment(g)
    \/ \E si \in StateInits : StateInitMut(si)
    \/ \E config \in Configs : UpdateConfigSmc(config)
    \/ FreezeAccount

Spec == Init /\ [][Next]_vars

-----------------------------------------------------------------------------
(* Codec runs: an account is serialized into a cell, and the cell is read  *)
(* back by construct_from.                                                 *)

\* the state_inits of the accounts given to the encoder
CodecStateInits ==
    StateInits
    \cup {[StateInit_default EXCEPT !.split_depth = Some(3), !.special = Some(2)],
          [StateInit_default EXCEPT !.code = Some(CodeX),
                                    !.library = Some(LibraryRoot(LeafA, TRUE))]}

CodecStates ==
    {AccountUninit}
    \cup {AccountFrozen(StateInit_hash(si).val) :
             si \in {x \in StateInits : IsSome(x.code) /\ ~IsSome(x.data)}}
    \cup {AccountActive(si) : si \in CodecStateInits}

\* StorageUsed::with_values_checked: small counters, a full-width cell
\* counter, and small counters with the dictionary-hash extension
CodecUsed ==
    {StorageUsed_default,
     StorageUsed_with_values_checked(VU7(3), VU7(348), StorageExtra_default).val,
     StorageUsed_with_values_checked(VarUInteger7_MAX, VU7(300),
                                     StorageExtra_default).val,
     StorageUsed_with_values_checked(VU7(1), VU7(100),
                                     Some(repr_hash(LeafA))).val}

CodecInfos ==
    {[used |-> u, last_paid |-> lp, due_payment |-> dp] :
        u \in CodecUsed, lp \in {0, 5},
        dp \in {None} \cup {Some(g) : g \in 0..MaxGrams}}

CodecStorages ==
    {[last_trans_lt |-> lt, balance |-> b, state |-> st, init_code_hash |-> ich] :
        lt \in 0..MaxLt, b \in Balances, st \in CodecStates,
        ich \in {None, Some(repr_hash(CodeX))}}

CodecAccounts ==
    {AccountNone}
    \cup {Account_with_storage(a, info, storage) :
             a \in Addrs, info \in CodecInfos, storage \in CodecStorages}

InitCodec ==
    /\ cx \in CodecAccounts
    /\ cenc = NoEnc
    /\ cdec = NoDec
    /\ dag = <<>>
    /\ short = StorageUsedShort_default
    /\ short0 = StorageUsedShort_default
    /\ roots = <<>>
    /\ calc = NoCalc
    /\ account = AccountNone
    /\ last = NoCall
    /\ frozen_from = None
    /\ ncalls = 0
    /\ din = NoIn
    /\ dout = NoOut
    /\ pacc = AccountNone
    /\ proot = NoRoot
    /\ pout = NoProof
    /\ shard = ShardAccount_default
    /\ slast = NoShardCall
    /\ scalls = 0
    /\ built = NoBuilt
    /\ ctrail = NoTail

\* cx.serialize()
Serialize ==
    /\ ~cenc.done
    /\ cenc' = Bind(Account_serialize(cx), LAMBDA r :
                    [done |-> TRUE, ok |-> r.ok, cell |-> r.cell])
    /\ UNCHANGED <<cx, cdec>>
    /\ UNCHANGED <<fvars, avars>>
    /\ UNCHANGED dvars
    /\ UNCHANGED pvars
    /\ UNCHANGED svars
    /\ UNCHANGED bvars
    /\ UNCHANGED tvars

\* Account::construct_from on a slice that holds the serialized cell
ConstructFrom ==
    /\ cenc.done
    /\ cenc.ok
    /\ ~cdec.done
    /\ ~ctrail.done
    /\ cdec' = Bind(Account_construct_from(SliceData_load_cell(cenc.cell)),
                    LAMBDA r : [done |-> TRUE, ok |-> r.ok, val |-> r.val,
                                sl |-> r.sl])
    /\ UNCHANGED <<cx, cenc>>
    /\ UNCHANGED <<fvars, avars>>
    /\ UNCHANGED dvars
    /\ UNCHANGED pvars
    /\ UNCHANGED svars
    /\ UNCHANGED bvars
    /\ UNCHANGED tvars

\* Account::construct_from on a slice that holds the bits of the serialized
\* cell followed by the bits t
ConstructFromWithTail(t) ==
    /\ cenc.done
    /\ cenc.ok
    /\ ~cdec.done
    /\ ~ctrail.done
    /\ Len(cenc.cell.data) + Len(t) <= MAX_DATA_BITS
    /\ ctrail' = Bind(Account_construct_from(
                          [ok |-> TRUE, data |-> cenc.cell.data \o t,
                           refs |-> cenc.cell.refs]),
                      LAMBDA r : [done |-> TRUE, tail |-> t, ok |-> r.ok,
                                  val |-> r.val, sl |-> r.sl])
    /\ UNCHANGED cvars
    /\ UNCHANGED <<fvars, avars>>
    /\ UNCHANGED dvars
    /\ UNCHANGED pvars
    /\ UNCHANGED svars
    /\ UNCHANGED bvars

NextCodec ==
    \/ Serialize
    \/ ConstructFrom
    \/ \E t \in Tails : ConstructFromWithTail(t)

SpecCodec == InitCodec /\ [][NextCodec]_vars

-----------------------------------------------------------------------------
(* Decode runs: a cell of wire bits, well formed, with any 3-bit tag, or   *)
(* cut short, is read by one of the decoders.  An input records its kind   *)
(* and the tag it was made with.                                           *)

\* the 3-bit tags a wire buffer may carry
Tags == 0..7

\* the prefixes of bits that are cut at one of the places ks
Cuts(bits, ks) == {SubSeq(bits, 1, k) : k \in {n \in ks : n >= 0 /\ n <= Len(bits)}}

HashBits == ToBits(repr_hash(LeafA), 256)

\* cells, bits and the extra tag t of a StorageUsed, without the hash
UsedHeadBits(t) ==
    VarUInteger7_write_to(VU7(300),
        VarUInteger7_write_to(VU7(2), BuilderData_new)).data \o ToBits(t, 3)

\* StorageUsed inputs: the head with tag t and a hash, whole or cut
RawStorageUsedOf(t) ==
    {[kind |-> "StorageUsed", tag |-> t, data |-> d, refs |-> <<>>] :
        d \in Cuts(UsedHeadBits(t) \o HashBits,
                   {Len(UsedHeadBits(t)), Len(UsedHeadBits(t)) + 100,
                    Len(UsedHeadBits(t)) + 256})}

\* StorageUsed inputs that end before the tag
RawStorageUsedCut ==
    {[kind |-> "StorageUsedCut", tag |-> 0, data |-> d, refs |-> <<>>] :
        d \in Cuts(UsedHeadBits(0), {0, 2, 11, 20, Len(UsedHeadBits(0)) - 1})}

\* StorageInfo inputs: a StorageUsed with tag t (and its hash when t = 1),
\* last_paid and due_payment, whole or cut
InfoBits(t) ==
    UsedHeadBits(t) \o (IF t = 1 THEN HashBits ELSE <<>>) \o ToBits(5, 32)
        \o Grams_write_to(1, append_bits(BuilderData_new, 1, 1)).data

RawStorageInfoOf(t) ==
    {[kind |-> "StorageInfo", tag |-> t, data |-> d, refs |-> <<>>] :
        d \in Cuts(InfoBits(t), {Len(InfoBits(t)) - 13, Len(InfoBits(t)) - 20,
                                 Len(InfoBits(t))})}

\* the accounts whose fields follow the tag of an Account input
TaggedAccounts ==
    {AccountNone,
     Account_with_address(CHOOSE a \in Addrs : TRUE),
     Account_active_by_init_code_hash(
         CHOOSE a \in Addrs : TRUE, [grams |-> 1, other |-> 0], 0,
         [StateInit_default EXCEPT !.code = Some(CodeX)], TRUE).acc}

\* the fields of acc as the extended layout writes them after its tag
TaggedBody(acc) ==
    IF IsSome(acc)
    THEN AccountStuff_write_to(Unwrap(acc), BuilderData_new)
    ELSE BuilderData_new

\* Account inputs: the bit 0, a tag t, then the fields of an account
RawAccounts ==
    {[kind |-> "Account", tag |-> t,
      data |-> <<0>> \o ToBits(t, 3) \o TaggedBody(acc).data,
      refs |-> TaggedBody(acc).refs] :
        t \in Tags, acc \in TaggedAccounts}

\* ShardAccount inputs: the account reference, last_trans_hash and
\* last_trans_lt, whole, cut inside the hash, or without the reference
ShardAccountBits == ToBits(repr_hash(CodeX), 256) \o ToBits(3, 64)

RawShardAccounts ==
    {[kind |-> "ShardAccount", tag |-> 0, data |-> d, refs |-> r] :
        d \in Cuts(ShardAccountBits, {0, 100, 256, 300, 320}),
        r \in {<<>>, <<Account_serialize(
                          Account_with_address(CHOOSE a \in Addrs : TRUE)).cell>>}}

\* StorageUsedShort inputs: cells and bits, whole or cut
ShortBits ==
    StorageUsedShort_write_to([cells |-> VU7(2), bits |-> VU7(300)],
                              BuilderData_new).data

RawStorageUsedShort ==
    {[kind |-> "StorageUsedShort", tag |-> 0, data |-> d, refs |-> <<>>] :
        d \in Cuts(ShortBits, {0, 2, 11, 20, Len(ShortBits) - 1, Len(ShortBits)})}

RawInputs ==
    UNION {RawStorageUsedOf(t) : t \in Tags}
    \cup UNION {RawStorageInfoOf(t) : t \in Tags}
    \cup RawStorageUsedCut \cup RawAccounts \cup RawShardAccounts
    \cup RawStorageUsedShort

\* the values read_from decodes into
StorageUsedSelves ==
    {StorageUsed_default,
     [cells |-> VU7(9), bits |-> VU7(90), extra |-> Some(repr_hash(CodeX))]}

StorageUsedShortSelves ==
    {StorageUsedShort_default, [cells |-> VU7(9), bits |-> VU7(90)]}

StorageInfoSelves ==
    {StorageInfo_default,
     [used |-> [cells |-> VU7(9), bits |-> VU7(90),
                extra |-> Some(repr_hash(CodeX))],
      last_paid |-> 7, due_payment |-> None]}

ShardAccountSelves ==
    {ShardAccount_default, ShardAccount_with_account_root(LeafA, 9, 9)}

InitDecode ==
    /\ din \in RawInputs
    /\ dout = NoOut
    /\ dag = <<>>
    /\ short = StorageUsedShort_default
    /\ short0 = StorageUsedShort_default
    /\ roots = <<>>
    /\ calc = NoCalc
    /\ account = AccountNone
    /\ last = NoCall
    /\ frozen_from = None
    /\ ncalls = 0
    /\ cx = AccountNone
    /\ cenc = NoEnc
    /\ cdec = NoDec
    /\ pacc = AccountNone
    /\ proot = NoRoot
    /\ pout = NoProof
    /\ shard = ShardAccount_default
    /\ slast = NoShardCall
    /\ scalls = 0
    /\ built = NoBuilt
    /\ ctrail = NoTail

\* the decode call op on the value pre, with result r
Decoded(op, pre, r) ==
    /\ dout.op = "none"
    /\ dout' = [op |-> op, pre |-> pre, ok |-> r.sl.ok, val |-> r.val,
                sl |-> r.sl]
    /\ UNCHANGED din
    /\ UNCHANGED <<fvars, avars, cvars>>
    /\ UNCHANGED pvars
    /\ UNCHANGED svars
    /\ UNCHANGED bvars
    /\ UNCHANGED tvars

\* Account::construct_from(slice)
DecodeAccount ==
    /\ din.kind = "Account"
    /\ Decoded("Account::construct_from", AccountNone,
               Account_construct_from(
                   SliceData_load_cell([data |-> din.data, refs |-> din.refs])))

\* self.read_from(slice) for a StorageUsed
ReadStorageUsed(self) ==
    /\ din.kind \in {"StorageUsed", "StorageUsedCut"}
    /\ Decoded("StorageUsed::read_from", self,
               StorageUsed_read_from(self,
                   SliceData_load_cell([data |-> din.data, refs |-> din.refs])))

\* self.read_from(slice) for a StorageUsedShort
ReadStorageUsedShort(self) ==
    /\ din.kind = "StorageUsedShort"
    /\ Decoded("StorageUsedShort::read_from", self,
               StorageUsedShort_read_from(self,
                   SliceData_load_cell([data |-> din.data, refs |-> din.refs])))

\* self.read_from(slice) for a StorageInfo
ReadStorageInfo(self) ==
    /\ din.kind = "StorageInfo"
    /\ Decoded("StorageInfo::read_from", self,
               StorageInfo_read_from(self,
                   SliceData_load_cell([data |-> din.data, refs |-> din.refs])))

\* self.read_from(slice) for a ShardAccount
ReadShardAccount(self) ==
    /\ din.kind = "ShardAccount"
    /\ Decoded("ShardAccount::read_from", self,
               ShardAccount_read_from(self,
                   SliceData_load_cell([data |-> din.data, refs |-> din.refs])))

NextDecode ==
    \/ DecodeAccount
    \/ \E self \in StorageUsedSelves : ReadStorageUsed(self)
    \/ \E self \in StorageUsedShortSelves : ReadStorageUsedShort(self)
    \/ \E self \in StorageInfoSelves : ReadStorageInfo(self)
    \/ \E self \in ShardAccountSelves : ReadShardAccount(self)

SpecDecode == InitDecode /\ [][NextDecode]_vars

-----------------------------------------------------------------------------
(* Proof runs: prepare_proof is called on an account with a state root.    *)

\* the ids of the accounts A and B of the index, and of an account C that
\* no index holds
AddrA == CHOOSE a \in Addrs : TRUE
AddrB == CHOOSE a \in SetAddrs : a # AddrA
AddrC == [workchain_id |-> 0, address |-> 5]

\* two cells with different bits and the same hash
TwinX == [data |-> <<1, 0, 0, 0, 0, 0, 0, 1>>, refs |-> <<>>]
TwinY == [data |-> <<0, 0, 1, 0, 0, 0, 1, 0>>, refs |-> <<>>]

\* the accounts prepare_proof is called on
ProofAccounts ==
    {AccountNone, Account_with_address(AddrA), Account_with_address(AddrB),
     Account_with_address(AddrC)}

\* an account cell no decoder accepts: the tag 111
BadAccountCell == [data |-> <<0, 1, 1, 1>>, refs |-> <<>>]

\* the entries the index holds for A: no entry, A with a balance, an entry
\* whose account is None, an entry whose account cell does not decode
EntriesA ==
    {None}
    \cup {Some(ShardAccount_with_account_root(
              Account_serialize(Account_with_address_and_ballance(
                  AddrA, [grams |-> g, other |-> 0])).cell, 0, 0)) : g \in 0..MaxGrams}
    \cup {Some(ShardAccount_with_account_root(DefaultAccountCell, 0, 0)),
          Some(ShardAccount_with_account_root(BadAccountCell, 0, 0))}

\* the entries the index holds for B: no entry, or B holding TwinX or TwinY
\* as its data
EntriesB ==
    {None}
    \cup {Some(ShardAccount_with_account_root(
              Account_serialize(Account_active_by_init_code_hash(
                  AddrB, [grams |-> 1, other |-> 0], 0,
                  [StateInit_default EXCEPT !.code = Some(CodeX), !.data = Some(d)],
                  FALSE).acc).cell, 0, 0)) : d \in {TwinX, TwinY}}

\* the rest of the shard state
Rests == {[data |-> ToBits(7, 8), refs |-> <<d>>] : d \in {TwinX, TwinY}}

\* the accounts cell of an index with the entries ea for A and eb for B
AccountsCell(ea, eb) ==
    IF IsSome(ea) /\ IsSome(eb)
    THEN ShardAccounts_with_root(
             IF KeyBit(AddrA.address, 0) = 0
             THEN DictFork(DictLeaf(AddrA.address, Unwrap(ea)),
                           DictLeaf(AddrB.address, Unwrap(eb)))
             ELSE DictFork(DictLeaf(AddrB.address, Unwrap(eb)),
                           DictLeaf(AddrA.address, Unwrap(ea))))
    ELSE IF IsSome(ea)
    THEN ShardAccounts_with_root(DictLeaf(AddrA.address, Unwrap(ea)))
    ELSE IF IsSome(eb)
    THEN ShardAccounts_with_root(DictLeaf(AddrB.address, Unwrap(eb)))
    ELSE ShardAccounts_empty

\* a cell that is no shard state: another tag, no reference
BadStateRoot == [data |-> ToBits(1, 8), refs |-> <<>>]

\* the state roots given to prepare_proof
ShardStates ==
    {ShardStateUnsplit_cell(AccountsCell(ea, eb), rest) :
        ea \in EntriesA, eb \in EntriesB, rest \in Rests}
    \cup {BadStateRoot}

InitProof ==
    /\ pacc \in ProofAccounts
    /\ proot \in ShardStates
    /\ pout = NoProof
    /\ dag = <<>>
    /\ short = StorageUsedShort_default
    /\ short0 = StorageUsedShort_default
    /\ roots = <<>>
    /\ calc = NoCalc
    /\ account = AccountNone
    /\ last = NoCall
    /\ frozen_from = None
    /\ ncalls = 0
    /\ cx = AccountNone
    /\ cenc = NoEnc
    /\ cdec = NoDec
    /\ din = NoIn
    /\ dout = NoOut
    /\ shard = ShardAccount_default
    /\ slast = NoShardCall
    /\ scalls = 0
    /\ built = NoBuilt
    /\ ctrail = NoTail

\* pacc.prepare_proof(&proot)
PrepareProof ==
    /\ ~pout.done
    /\ pout' = [done |-> TRUE] @@ prepare_proof(pacc, proot)
    /\ UNCHANGED <<pacc, proot>>
    /\ UNCHANGED <<fvars, avars, cvars, dvars>>
    /\ UNCHANGED svars
    /\ UNCHANGED bvars
    /\ UNCHANGED tvars

NextProof == PrepareProof

SpecProof == InitProof /\ [][NextProof]_vars

-----------------------------------------------------------------------------
(* Shard-account runs: a ShardAccount made by a constructor, then calls on *)
(* it.                                                                     *)

\* the accounts given to write_account and to with_params
ShardWritten ==
    {AccountNone, Account_with_address(AddrA)}
    \cup {Account_with_storage(
              AddrA,
              [used |-> u, last_paid |-> 0, due_payment |-> None],
              [last_trans_lt |-> 0, balance |-> [grams |-> 1, other |-> 1],
               state |-> st, init_code_hash |-> Some(repr_hash(CodeX))]) :
             u \in {StorageUsed_default,
                    [cells |-> VU7(1), bits |-> VU7(100),
                     extra |-> Some(repr_hash(LeafA))]},
             st \in {AccountUninit,
                     AccountFrozen(AddrA.address),
                     AccountActive([StateInit_default EXCEPT !.code = Some(CodeX)])}}

\* the last_trans_hash values
TransHashes == {0, repr_hash(LeafA)}

\* the ShardAccounts a run starts from
InitShardAccounts ==
    {ShardAccount_default,
     ShardAccount_with_account_root(BadAccountCell, 0, 0)}
    \cup {ShardAccount_with_params(a, h, lt).val :
             a \in {x \in ShardWritten : Account_serialize(x).ok},
             h \in TransHashes, lt \in 0..MaxLt}

InitShard ==
    /\ shard \in InitShardAccounts
    /\ slast = NoShardCall
    /\ scalls = 0
    /\ dag = <<>>
    /\ short = StorageUsedShort_default
    /\ short0 = StorageUsedShort_default
    /\ roots = <<>>
    /\ calc = NoCalc
    /\ account = AccountNone
    /\ last = NoCall
    /\ frozen_from = None
    /\ ncalls = 0
    /\ cx = AccountNone
    /\ cenc = NoEnc
    /\ cdec = NoDec
    /\ din = NoIn
    /\ dout = NoOut
    /\ pacc = AccountNone
    /\ proot = NoRoot
    /\ pout = NoProof
    /\ built = NoBuilt
    /\ ctrail = NoTail

\* the call op(arg) on the ShardAccount: ok and val are its result, self the
\* ShardAccount afterwards
ShardCall(op, arg, ok, val, self) ==
    /\ scalls < MaxShardCalls
    /\ scalls' = scalls + 1
    /\ shard' = self
    /\ slast' = [op |-> op, arg |-> arg, ok |-> ok, val |-> val, pre |-> shard]
    /\ UNCHANGED <<fvars, avars, cvars, dvars, pvars>>
    /\ UNCHANGED bvars
    /\ UNCHANGED tvars

WriteAccount(a) ==
    ShardCall("write_account", a, ShardAccount_write_account(shard, a).ok, None,
              ShardAccount_write_account(shard, a).val)

ReadAccount ==
    ShardCall("read_account", None, ShardAccount_read_account(shard).ok,
              ShardAccount_read_account(shard).val, shard)

SetLastTransHash(h) ==
    ShardCall("set_last_trans_hash", h, TRUE, None, set_last_trans_hash(shard, h))

SetLastTransLt(lt) ==
    ShardCall("set_last_trans_lt", lt, TRUE, None, set_last_trans_lt(shard, lt))

LastTransHashMut(h) ==
    ShardCall("last_trans_hash_mut", h, TRUE, None, last_trans_hash_mut(shard, h))

LastTransLtMut(lt) ==
    ShardCall("last_trans_lt_mut", lt, TRUE, None, last_trans_lt_mut(shard, lt))

SetAccountCell(cell) ==
    ShardCall("set_account_cell", cell, TRUE, None, set_account_cell(shard, cell))

\* shard.serialize(), then ShardAccount::construct_from_cell on the result
RoundTrip ==
    ShardCall("round_trip", None, ShardAccount_round_trip(shard).ok,
              ShardAccount_round_trip(shard).val, shard)

NextShard ==
    \/ \E a \in ShardWritten : WriteAccount(a)
    \/ ReadAccount
    \/ \E h \in TransHashes : SetLastTransHash(h)
    \/ \E lt \in 0..MaxLt : SetLastTransLt(lt)
    \/ \E h \in TransHashes : LastTransHashMut(h)
    \/ \E lt \in 0..MaxLt : LastTransLtMut(lt)
    \/ \E c \in {TwinX, TwinY} : SetAccountCell(c)
    \/ RoundTrip

SpecShard == InitShard /\ [][NextShard]_vars

-----------------------------------------------------------------------------
(* Claims about the account lifecycle, checked under Spec *)

Activated == last.op = "try_activate_by_init_code_hash"

\* the state_init given to the last activation hashes to v
ArgHashIs(v) == StateInit_hash(last.arg.si).val = v

\* C1: on an Uninit account try_activate_by_init_code_hash succeeds iff the
\* hash of the state_init equals the account address, and a failed call
\* leaves the whole account as it was.
C1_UninitActivationHashGate ==
    (Activated /\ status(last.pre) = "AccStateUninit") =>
        /\ last.ok <=> ArgHashIs(get_address(Unwrap(last.pre).addr))
        /\ ~last.ok => account = last.pre

\* an activation of an Uninit account was refused for a mismatched hash
C1_Witness ==
    /\ Activated
    /\ status(last.pre) = "AccStateUninit"
    /\ ~ArgHashIs(get_address(Unwrap(last.pre).addr))
    /\ ~last.ok
    /\ account = last.pre

\* the state_init of the last activation does not match what the account
\* before the call commits to (its address if Uninit, its hash if Frozen)
ArgMismatch ==
    \/ /\ status(last.pre) = "AccStateUninit"
       /\ ~ArgHashIs(get_address(Unwrap(last.pre).addr))
    \/ /\ status(last.pre) = "AccStateFrozen"
       /\ ~ArgHashIs(Unwrap(frozen_hash(last.pre)))

\* C2 as stated: try_activate_by_init_code_hash returns an error only on an
\* Uninit or Frozen account with a mismatched state_init; from Active and
\* from None it raises no error.
C2_ErrorOnlyOnHashMismatch ==
    (Activated /\ ~last.ok) => ArgMismatch

\* the errors of the code: try_activate_by_init_code_hash returns an error
\* exactly when it is called on None, or on an Uninit or Frozen account with
\* a mismatched state_init; from Active it raises no error.
C2_ErrorOnMismatchOrNone ==
    Activated => (~last.ok <=> (last.pre = AccountNone \/ ArgMismatch))

\* an activation of the absent account returned an error, where C2 and the
\* no-op success of the specification ask for Ok
C2_Witness ==
    Activated /\ last.pre = AccountNone /\ ~last.ok /\ account = AccountNone

\* C3: try_activate_by_init_code_hash on an Active account returns Ok and
\* leaves the account equal to what it was (init_code_hash included).
C3_ActivateOnActiveIsNoOp ==
    (Activated /\ status(last.pre) = "AccStateActive") =>
        last.ok /\ account = last.pre

\* an activation of an Active account returned Ok and took away the
\* init_code_hash the account held
C3_Witness ==
    /\ Activated
    /\ status(last.pre) = "AccStateActive"
    /\ last.ok
    /\ IsSome(init_code_hash(last.pre))
    /\ init_code_hash(account) = None
    /\ state_init(account) = state_init(last.pre)

\* C4: try_freeze turns Active with state_init s into Frozen with hash(s);
\* activating that account with s succeeds and restores Active with s;
\* activating it with a state_init of another hash fails and leaves it
\* Frozen with the same hash.
C4_FreezeReactivateRoundTrip ==
    /\ (last.op = "try_freeze" /\ status(last.pre) = "AccStateActive") =>
          /\ last.ok
          /\ frozen_from = state_init(last.pre)
          /\ frozen_hash(account) =
                 Some(StateInit_hash(Unwrap(state_init(last.pre))).val)
    /\ (Activated /\ status(last.pre) = "AccStateFrozen" /\ IsSome(frozen_from)) =>
          IF last.arg.si = Unwrap(frozen_from)
          THEN last.ok /\ state_init(account) = frozen_from
          ELSE ~ArgHashIs(StateInit_hash(Unwrap(frozen_from)).val) =>
                  /\ ~last.ok
                  /\ account = last.pre
                  /\ frozen_hash(account) =
                         Some(StateInit_hash(Unwrap(frozen_from)).val)

\* an account frozen by try_freeze was activated again with its state_init
C4_Witness ==
    /\ Activated
    /\ status(last.pre) = "AccStateFrozen"
    /\ IsSome(frozen_from)
    /\ last.arg.si = Unwrap(frozen_from)
    /\ last.ok
    /\ state_init(account) = frozen_from

\* C5: a call changes the lifecycle position only by Uninit->Active
\* (activation, hash = address), Active->Frozen (try_freeze), Active->Uninit
\* (uninit_account) or Frozen->Active (activation, hash = frozen hash);
\* try_freeze and uninit_account outside Active change nothing and raise
\* no error.  freeze_account is try_freeze under its older name.
C5_LifecycleSteps ==
    LET p == status(last.pre)
        q == status(account)
    IN  last.op # "none" =>
        /\ p # q =>
            \/ /\ p = "AccStateUninit" /\ q = "AccStateActive" /\ Activated
               /\ ArgHashIs(get_address(Unwrap(last.pre).addr))
            \/ /\ p = "AccStateActive" /\ q = "AccStateFrozen"
               /\ last.op \in {"try_freeze", "freeze_account"}
            \/ p = "AccStateActive" /\ q = "AccStateUninit"
                  /\ last.op = "uninit_account"
            \/ /\ p = "AccStateFrozen" /\ q = "AccStateActive" /\ Activated
               /\ ArgHashIs(Unwrap(frozen_hash(last.pre)))
        /\ (last.op \in {"try_freeze", "freeze_account", "uninit_account"}
               /\ p # "AccStateActive") =>
              last.ok /\ account = last.pre

\* uninit_account was called on a Frozen account and changed nothing
C5_Witness ==
    /\ last.op = "uninit_account"
    /\ status(last.pre) = "AccStateFrozen"
    /\ last.ok
    /\ account = last.pre

\* the mutators of persisted storage fields
Mutators ==
    {"add_funds", "sub_funds", "set_balance", "set_data", "set_code",
     "set_library", "delete_library", "set_last_tr_time", "try_freeze",
     "uninit_account", "try_activate_by_init_code_hash"}

\* the footprint of the account's storage: the distinct cells reachable from
\* its serialization, and their bits
ExactFootprint(acc) ==
    LET R == Reachable(AccountStorage_serialize(Unwrap(acc).storage).cell)
    IN  [cells |-> VU7(Cardinality(R)), bits |-> VU7(TotalBits(R)),
         extra |-> StorageExtra_default]

UsedIsExact(acc) ==
    IsSome(acc) => Unwrap(acc).storage_stat.used = ExactFootprint(acc)

\* C9 as stated: a mutator called on an account whose storage_stat.used is
\* the exact footprint of its storage leaves used the exact footprint.
C9_FootprintRefreshedByMutators ==
    (last.op \in Mutators /\ UsedIsExact(last.pre)) => UsedIsExact(account)

\* C9 amended: no mutator touches storage_stat, so used is stale once the
\* storage changed; used is the exact footprint of the storage right after
\* a successful update_storage_stat.
C9_FootprintRefreshedOnlyByUpdate ==
    /\ (last.op \in Mutators /\ IsSome(account)) =>
          Unwrap(account).storage_stat = Unwrap(last.pre).storage_stat
    /\ (last.op = "update_storage_stat" /\ last.ok) => UsedIsExact(account)

\* update_storage_stat brought a stale footprint up to date, for a storage
\* with a cell reached by two paths
C9_Witness ==
    /\ last.op = "update_storage_stat"
    /\ last.ok
    /\ IsSome(account)
    /\ ~UsedIsExact(last.pre)
    /\ UsedIsExact(account)
    /\ IsSome(state_init(account))
    /\ Unwrap(state_init(account)).data = Some(LeafA)
    /\ Unwrap(state_init(account)).code = Some(CodeX)

-----------------------------------------------------------------------------
(* Claims about the footprint engine, checked under SpecFootprint *)

RootSet(i) == Reachable(CellOf(dag, roots[i]))

\* C6: after append(r1) and append(r2) on one empty accumulator, for roots
\* that share a reachable node, cells and bits are the count and the total
\* bit length of the distinct nodes of the union of the two reachable sets,
\* which is less than the sum of the two separate footprints.
C6_AppendCountsSharedNodeOnce ==
    (Len(roots) = 2 /\ short0 = StorageUsedShort_default
        /\ CellOf(dag, roots[1]) # CellOf(dag, roots[2])
        /\ RootSet(1) \cap RootSet(2) # {})
    => /\ short.cells = VU7(Cardinality(RootSet(1) \cup RootSet(2)))
       /\ short.bits = VU7(TotalBits(RootSet(1) \cup RootSet(2)))
       /\ short.cells.lo < Cardinality(RootSet(1)) + Cardinality(RootSet(2))

\* two roots that share a node were appended to an empty accumulator, and
\* cells is the sum of the two separate footprints
C6_Witness ==
    /\ Len(roots) = 2
    /\ short0 = StorageUsedShort_default
    /\ CellOf(dag, roots[1]) # CellOf(dag, roots[2])
    /\ RootSet(1) \cap RootSet(2) # {}
    /\ short.cells = VU7(Cardinality(RootSet(1)) + Cardinality(RootSet(2)))
    /\ short.cells.lo > Cardinality(RootSet(1) \cup RootSet(2))

\* C7: calculate_for_struct of StorageUsed and of StorageUsedShort returns
\* cells = the number of distinct nodes reachable from the root, the root
\* included, and bits = the sum of the own bit lengths of those nodes.
C7_FootprintIsDistinctReachable ==
    calc.done =>
        LET R == Reachable(CellOf(dag, calc.root)) IN
        /\ calc.used.ok
        /\ calc.used.val.cells = VU7(Cardinality(R))
        /\ calc.used.val.bits = VU7(TotalBits(R))
        /\ calc.ushort.ok
        /\ calc.ushort.val.cells = VU7(Cardinality(R))
        /\ calc.ushort.val.bits = VU7(TotalBits(R))

\* a footprint was computed for a root with a node reached by two paths
C7_Witness ==
    /\ calc.done
    /\ \E i, j \in 1..Len(dag[calc.root].refs) :
          /\ i < j
          /\ Reachable(CellOf(dag, dag[calc.root].refs[i]))
               \cap Reachable(CellOf(dag, dag[calc.root].refs[j])) # {}
    /\ Cardinality(Reachable(CellOf(dag, calc.root))) >= 3
    /\ calc.used.val.cells =
           VU7(Cardinality(Reachable(CellOf(dag, calc.root))))

\* C8: a footprint computation whose additions would take cells or bits
\* past the 7-byte maximum does not return normally: append returns only
\* when the true counts fit.
C8_OverflowFailsNotSilent ==
    Len(roots) = 1 =>
        /\ ~Exceeds(short0.cells, Cardinality(RootSet(1)))
        /\ ~Exceeds(short0.bits, TotalBits(RootSet(1)))

\* append returned although the root's cells do not fit the counter, and
\* the counter it left is below the true count
C8_Witness ==
    /\ Len(roots) = 1
    /\ Exceeds(short0.cells, Cardinality(RootSet(1)))
    /\ short.cells = VarUInteger7_MAX
    /\ short0.cells # VarUInteger7_MAX

-----------------------------------------------------------------------------
(* Claims about the Account wire codec, checked under SpecCodec *)

\* the bits of the fields addr, storage_stat, last_trans_lt, balance, state
FieldBits(acc) ==
    LET stuff == Unwrap(acc) IN
    AccountState_write_to(stuff.storage.state,
        CurrencyCollection_write_to(stuff.storage.balance,
            append_bits(
                StorageInfo_write_to(stuff.storage_stat,
                    MsgAddressInt_write_to(stuff.addr, BuilderData_new)),
                stuff.storage.last_trans_lt, 64))).data

\* the layout the encoder is to emit for acc
LayoutBits(acc) ==
    IF ~IsSome(acc) THEN <<0>>
    ELSE IF IsSome(init_code_hash(acc))
    THEN <<0, 0, 0, 1>> \o FieldBits(acc) \o <<1>>
         \o ToBits(Unwrap(init_code_hash(acc)), 256)
    ELSE <<1>> \o FieldBits(acc)

\* the encoder emitted the layout of cx, and the decoder, if it ran,
\* returned an account equal to cx
RoundTripHolds ==
    /\ cenc.ok
    /\ cenc.cell.data = LayoutBits(cx)
    /\ cdec.done => cdec.ok /\ Account_eq(cdec.val, cx)

\* C10: for every Account x, serialize gives an encoding of x in the
\* extended layout (0001, the fields, maybe(init_code_hash)) exactly when
\* init_code_hash is present and in the original layout (1 and the fields,
\* or the single bit 0 for None) otherwise, and construct_from on a slice
\* holding exactly that encoding returns an account equal to x.
C10_EncodeDecodeRoundTrip == cenc.done => RoundTripHolds

\* C10, for the accounts serialize accepts: whenever serialize succeeds the
\* encoding has the layout of x, and construct_from returns an account
\* equal to x.
C10_RoundTripWhenEncoded == cenc.done /\ cenc.ok => RoundTripHolds

\* C10: serialize fails exactly on the Frozen accounts that carry both an
\* init_code_hash and the dictionary-hash extension of StorageUsed.
C10_EncodeFailsOnlyWhenOversized ==
    cenc.done =>
        (~cenc.ok <=> /\ IsSome(cx)
                      /\ Unwrap(cx).storage.state.tag = "Frozen"
                      /\ IsSome(init_code_hash(cx))
                      /\ IsSome(Unwrap(cx).storage_stat.used.extra))

\* a Frozen account with init_code_hash and no StorageUsed extension was
\* encoded in the extended layout and decoded to an equal account
C10_RoundTripReached ==
    /\ cdec.done
    /\ cdec.ok
    /\ Account_eq(cdec.val, cx)
    /\ IsSome(cx)
    /\ Unwrap(cx).storage.state.tag = "Frozen"
    /\ IsSome(init_code_hash(cx))
    /\ SubSeq(cenc.cell.data, 1, 4) = <<0, 0, 0, 1>>

\* serialize returned an error for a Frozen account that holds an
\* init_code_hash and the dictionary-hash extension of StorageUsed
C10_Witness ==
    /\ cenc.done
    /\ ~cenc.ok
    /\ IsSome(cx)
    /\ Unwrap(cx).storage.state.tag = "Frozen"
    /\ IsSome(init_code_hash(cx))
    /\ IsSome(Unwrap(cx).storage_stat.used.extra)
    /\ Unwrap(cx).storage_stat.used.cells = VU7(1)

-----------------------------------------------------------------------------
(* Claims about decoding, checked under SpecDecode *)

\* C11: decoding an Account whose first bit is 0 and whose 3-bit tag is
\* neither 000 nor 001 returns an error, and StorageUsed::read_from on an
\* input whose 3-bit extra tag is neither 000 nor 001 returns an error: no
\* value is returned as success.
C11_UnknownTagRejected ==
    /\ (dout.op = "Account::construct_from" /\ din.tag \notin {0, 1})
           => ~dout.ok /\ dout.val = AccountNone
    /\ (dout.op = "StorageUsed::read_from" /\ din.kind = "StorageUsed"
            /\ din.tag \notin {0, 1})
           => ~dout.ok

\* an Account input with tag 010 followed by the fields of an account was
\* refused
C11_Witness ==
    /\ dout.op = "Account::construct_from"
    /\ SubSeq(din.data, 1, 4) = <<0, 0, 1, 0>>
    /\ Len(din.data) > 4
    /\ ~dout.ok

\* a StorageUsed input with extra tag 111 was refused
C11_StorageUsedTagRefused ==
    /\ dout.op = "StorageUsed::read_from"
    /\ din.kind = "StorageUsed"
    /\ SubSeq(din.data, Len(UsedHeadBits(7)) - 2, Len(UsedHeadBits(7)))
           = <<1, 1, 1>>
    /\ ~dout.ok

ReadFromOps ==
    {"StorageUsed::read_from", "StorageInfo::read_from",
     "ShardAccount::read_from"}

\* C12: when StorageUsed::read_from, StorageInfo::read_from or
\* ShardAccount::read_from returns an error, the value it was decoding into
\* is what it was before the call.
C12_FailedReadLeavesSelf ==
    (dout.op \in ReadFromOps /\ ~dout.ok) => dout.val = dout.pre

\* StorageUsed::read_from refused an input for its extra tag, and self
\* holds the cells and bits of that input
C12_Witness ==
    /\ dout.op = "StorageUsed::read_from"
    /\ din.kind = "StorageUsed"
    /\ din.tag = 7
    /\ ~dout.ok
    /\ dout.pre = StorageUsed_default
    /\ dout.val.cells = VU7(2)
    /\ dout.val.bits = VU7(300)

\* StorageInfo::read_from failed on an input cut inside last_paid, and
\* self.used holds the StorageUsed of that input
C12_StorageInfoHalfRead ==
    /\ dout.op = "StorageInfo::read_from"
    /\ ~dout.ok
    /\ din.tag = 0
    /\ dout.val.used # dout.pre.used
    /\ dout.val.last_paid = dout.pre.last_paid

\* ShardAccount::read_from failed on an input cut inside last_trans_hash,
\* and self.account holds the reference of that input
C12_ShardAccountHalfRead ==
    /\ dout.op = "ShardAccount::read_from"
    /\ ~dout.ok
    /\ dout.val.account # dout.pre.account
    /\ dout.val.last_trans_hash = dout.pre.last_trans_hash

-----------------------------------------------------------------------------
(* Claims on the balance *)

\* whether the funds a pass the balance b in grams or in the extra currency
ExceedsBalance(a, b) == a.grams > b.grams \/ a.other > b.other

\* C13: sub_funds(a) on an account with balance b: when a exceeds b in grams
\* or in the extra currency it returns false and the balance is b; when b
\* covers a it returns true and the balance is b - a; on the absent account
\* it returns false and the account stays absent.
C13_SubFundsAllOrNothing ==
    last.op = "sub_funds" =>
        /\ last.ok
        /\ IF IsSome(last.pre)
           THEN LET b == Unwrap(last.pre).storage.balance
                    a == last.arg
                IN  IF ExceedsBalance(a, b)
                    THEN ~last.ret /\ account = last.pre
                    ELSE /\ last.ret
                         /\ IsSome(account)
                         /\ Unwrap(account).storage.balance =
                                [grams |-> b.grams - a.grams,
                                 other |-> b.other - a.other]
           ELSE ~last.ret /\ account = AccountNone

\* sub_funds refused funds the grams of the balance cover and its extra
\* currency does not
C13_Witness ==
    /\ last.op = "sub_funds"
    /\ IsSome(last.pre)
    /\ last.arg.grams > 0
    /\ last.arg.grams <= Unwrap(last.pre).storage.balance.grams
    /\ last.arg.other > Unwrap(last.pre).storage.balance.other
    /\ ~last.ret
    /\ account = last.pre

\* sub_funds took funds the balance covers
C13_Covered ==
    /\ last.op = "sub_funds"
    /\ IsSome(last.pre)
    /\ last.arg.grams > 0
    /\ last.ret
    /\ Unwrap(account).storage.balance.grams
           = Unwrap(last.pre).storage.balance.grams - last.arg.grams

\* sub_funds on the absent account
C13_OnNone ==
    last.op = "sub_funds" /\ last.pre = AccountNone /\ ~last.ret

\* C14: add_funds returns Ok for every account and every funds, the balance
\* afterwards being the saturating sum, also when the sum passes the largest
\* amount of the balance type; on the absent account it changes nothing.
C14_AddFundsAlwaysOk ==
    last.op = "add_funds" =>
        /\ last.ok
        /\ IF IsSome(last.pre)
           THEN LET b == Unwrap(last.pre).storage.balance
                IN  /\ IsSome(account)
                    /\ Unwrap(account).storage.balance =
                           [grams |-> SaturatingAdd(b.grams, last.arg.grams, MaxGrams),
                            other |-> SaturatingAdd(b.other, last.arg.other, MaxExtra)]
           ELSE account = AccountNone

\* add_funds returned Ok for funds whose sum with the balance passes the
\* largest amount
C14_Witness ==
    /\ last.op = "add_funds"
    /\ IsSome(last.pre)
    /\ Unwrap(last.pre).storage.balance.grams + last.arg.grams > MaxGrams
    /\ last.ok
    /\ Unwrap(account).storage.balance.grams = MaxGrams

\* add_funds on the absent account
C14_OnNone ==
    last.op = "add_funds" /\ last.pre = AccountNone /\ last.ok

-----------------------------------------------------------------------------
(* Claims on the address and on init_code_hash *)

\* C15: no operation applied to an existing account changes the address
\* get_addr returns.
C15_AddressImmutable ==
    (last.op # "none" /\ IsSome(last.pre)) => get_addr(account) = get_addr(last.pre)

\* set_addr on an existing account, get_addr returning the new address
C15_Witness ==
    /\ last.op = "set_addr"
    /\ IsSome(last.pre)
    /\ get_addr(account) = Some(last.arg)
    /\ get_addr(account) # get_addr(last.pre)

\* every operation other than set_addr leaves the address of an existing
\* account as it was
C15_OnlySetAddrChangesAddress ==
    (last.op \notin {"none", "set_addr"} /\ IsSome(last.pre))
        => get_addr(account) = get_addr(last.pre)

\* a call that made an account Active that was not
BecameActive ==
    /\ last.op = "try_activate_by_init_code_hash"
    /\ last.ok
    /\ status(last.pre) # "AccStateActive"
    /\ status(account) = "AccStateActive"

\* C16: on an existing account init_code_hash changes only in a call that
\* performs an activation.
C16_InitCodeHashSetOnlyByActivation ==
    (last.op # "none" /\ IsSome(last.pre)
        /\ init_code_hash(account) # init_code_hash(last.pre)) => BecameActive

\* set_init_code_hash wrote init_code_hash of an account that it left Uninit
C16_Witness ==
    /\ last.op = "set_init_code_hash"
    /\ status(last.pre) = "AccStateUninit"
    /\ status(account) = "AccStateUninit"
    /\ init_code_hash(last.pre) = None
    /\ init_code_hash(account) = Some(last.arg)

\* an activation on an Active account, a no-op on its state, cleared
\* init_code_hash
C16_NoOpActivationClears ==
    /\ last.op = "try_activate_by_init_code_hash"
    /\ last.ok
    /\ status(last.pre) = "AccStateActive"
    /\ state(account) = state(last.pre)
    /\ IsSome(init_code_hash(last.pre))
    /\ init_code_hash(account) = None

\* the calls that change init_code_hash of an existing account are
\* set_init_code_hash and the successful calls of
\* try_activate_by_init_code_hash
C16_InitCodeHashWriters ==
    (last.op # "none" /\ IsSome(last.pre)
        /\ init_code_hash(account) # init_code_hash(last.pre))
    => \/ last.op = "set_init_code_hash"
       \/ last.op = "try_activate_by_init_code_hash" /\ last.ok

\* C17: a successful activation from Uninit or Frozen leaves the account
\* Active; with the flag true init_code_hash is the hash of the code of the
\* state_init given (None when it has no code), with the flag false it is
\* what it was.
C17_ActivationPinsCodeHash ==
    BecameActive =>
        init_code_hash(account) =
            IF last.arg.flag THEN CodeHash(last.arg.si)
            ELSE init_code_hash(last.pre)

\* a Frozen account activated with the flag true and a state_init with
\* code, init_code_hash being None afterwards
C17_Witness ==
    /\ BecameActive
    /\ status(last.pre) = "AccStateFrozen"
    /\ last.arg.flag
    /\ IsSome(last.arg.si.code)
    /\ init_code_hash(account) = None

\* an Uninit account holding an init_code_hash activated with the flag
\* false, init_code_hash being None afterwards
C17_FlagFalseClears ==
    /\ BecameActive
    /\ status(last.pre) = "AccStateUninit"
    /\ ~last.arg.flag
    /\ IsSome(init_code_hash(last.pre))
    /\ init_code_hash(account) = None

\* a successful activation from Uninit leaves the account Active, with
\* init_code_hash the hash of the code when the flag is true and None when
\* it is false; one from Frozen leaves it Active with init_code_hash None
C17_ActivationAsCoded ==
    BecameActive =>
        init_code_hash(account) =
            IF status(last.pre) = "AccStateUninit" /\ last.arg.flag
            THEN CodeHash(last.arg.si)
            ELSE None

\* an Uninit account activated with the flag true: init_code_hash is the
\* hash of the code
C17_UninitFlagTrue ==
    /\ BecameActive
    /\ status(last.pre) = "AccStateUninit"
    /\ last.arg.flag
    /\ init_code_hash(account) = Some(repr_hash(CodeX))

-----------------------------------------------------------------------------
(* Constructor runs: one call of a constructor that can return an Active   *)
(* account, with the arguments it was given.                               *)

InitBuild ==
    /\ built = NoBuilt
    /\ account = AccountNone
    /\ last = NoCall
    /\ frozen_from = None
    /\ ncalls = 0
    /\ dag = <<>>
    /\ short = StorageUsedShort_default
    /\ short0 = StorageUsedShort_default
    /\ roots = <<>>
    /\ calc = NoCalc
    /\ cx = AccountNone
    /\ cenc = NoEnc
    /\ cdec = NoDec
    /\ din = NoIn
    /\ dout = NoOut
    /\ pacc = AccountNone
    /\ proot = NoRoot
    /\ pout = NoProof
    /\ shard = ShardAccount_default
    /\ slast = NoShardCall
    /\ scalls = 0
    /\ ctrail = NoTail

\* the constructor call op, given addr, init and flag (in the message msg,
\* if it takes one; for with_values_checked msg holds the arguments),
\* returned out (the Option of the value made)
Built(op, addr, init, flag, msg, out) ==
    /\ built' = [op |-> op, addr |-> addr, init |-> init, flag |-> flag,
                 msg |-> msg, out |-> out]
    /\ UNCHANGED fvars
    /\ UNCHANGED avars
    /\ UNCHANGED cvars
    /\ UNCHANGED dvars
    /\ UNCHANGED pvars
    /\ UNCHANGED svars
    /\ UNCHANGED tvars

FromMessage(msg, flag) ==
    Built("from_message_by_init_code_hash",
          IF IsSome(msg.header) THEN Some(Unwrap(msg.header).dst) ELSE None,
          msg.init, flag, Some(msg),
          Account_from_message_by_init_code_hash(msg, flag))

ActiveByInitCodeHash(addr, balance, si, flag) ==
    Built("active_by_init_code_hash", Some(addr), Some(si), flag, None,
          Bind(Account_active_by_init_code_hash(addr, balance, 0, si, flag),
               LAMBDA r : IF r.ok THEN Some(r.acc) ELSE None))

\* StorageUsed::with_values_checked; out is the Option of the value made
StorageUsedWithValuesChecked(cells, bits, extra) ==
    Built("StorageUsed::with_values_checked", None, None, FALSE,
          Some([cells |-> cells, bits |-> bits, extra |-> extra]),
          Bind(StorageUsed_with_values_checked(cells, bits, extra),
               LAMBDA r : IF r.ok THEN Some(r.val) ELSE None))

\* StorageUsedShort::with_values_checked; out is the Option of the value made
StorageUsedShortWithValuesChecked(cells, bits) ==
    Built("StorageUsedShort::with_values_checked", None, None, FALSE,
          Some([cells |-> cells, bits |-> bits]),
          Bind(StorageUsedShort_with_values_checked(cells, bits),
               LAMBDA r : IF r.ok THEN Some(r.val) ELSE None))

NextBuild ==
    \/ \E msg \in Messages, flag \in BOOLEAN : FromMessage(msg, flag)
    \/ \E cells \in U64s, bits \in U64s,
          extra \in {StorageExtra_default, Some(repr_hash(LeafA))} :
          StorageUsedWithValuesChecked(cells, bits, extra)
    \/ \E cells \in U64s, bits \in U64s :
          StorageUsedShortWithValuesChecked(cells, bits)
    \/ \E addr \in SetAddrs, b \in Balances, si \in StateInits,
          flag \in BOOLEAN : ActiveByInitCodeHash(addr, b, si, flag)

SpecBuild == InitBuild /\ [][NextBuild]_vars

-----------------------------------------------------------------------------
(* Claims on prepare_proof, checked under SpecProof *)

\* whether proot parses as a shard state
RootParses == ShardStateUnsplit_construct_from_cell(proot).ok

\* the look-up of the id of pacc in the index under proot
EntryOfAccount ==
    ShardAccounts_get_serialized(
        ShardStateUnsplit_construct_from_cell(proot).accounts,
        Unwrap(get_id(pacc)), {})

\* the index under proot has an entry for the id of pacc
EntryFound == IsSome(pacc) /\ RootParses /\ EntryOfAccount.ok /\ EntryOfAccount.found

\* the index under proot has no entry for the id of pacc
EntryMissing == IsSome(pacc) /\ RootParses /\ EntryOfAccount.ok /\ ~EntryOfAccount.found

\* what read_account gives for the entry found
EntryAccount ==
    ShardAccount_read_account(
        ShardAccount_read_from(ShardAccount_default, EntryOfAccount.value).val)

\* C18: prepare_proof succeeds only when the id of the account has an entry
\* in the index under state_root and that entry holds a non-None account;
\* on a None account it fails with InvalidData, with no entry it fails with
\* InvalidArg, and with an entry that reads as a None account it fails.
C18_ProofOnlyForPresentAccount ==
    pout.done =>
        /\ pout.ok => (EntryFound /\ EntryAccount.ok /\ IsSome(EntryAccount.val))
        /\ ~IsSome(pacc) => (~pout.ok /\ pout.kind = "InvalidData")
        /\ EntryMissing => (~pout.ok /\ pout.kind = "InvalidArg")
        /\ (EntryFound /\ EntryAccount.ok /\ ~IsSome(EntryAccount.val)) => ~pout.ok

\* prepare_proof succeeded on an entry whose account reads as None
C18_Witness ==
    /\ pout.done
    /\ pout.ok
    /\ EntryFound
    /\ EntryAccount.ok
    /\ EntryAccount.val = AccountNone

\* prepare_proof succeeds exactly when the account is not None, the root
\* parses, the entry is found and its account cell decodes; a None account
\* gives InvalidData and a missing entry InvalidArg
C18_ProofAsCoded ==
    pout.done =>
        /\ pout.ok <=> (EntryFound /\ EntryAccount.ok)
        /\ ~IsSome(pacc) => (~pout.ok /\ pout.kind = "InvalidData")
        /\ EntryMissing => (~pout.ok /\ pout.kind = "InvalidArg")
        /\ (IsSome(pacc) /\ ~RootParses) => (~pout.ok /\ pout.kind = "Deserialize")

\* the failures reached: a None account, a missing entry (the id of C, and
\* the id of A in an index that holds only B), an entry that does not decode
C18_NoneAccountRefused ==
    pout.done /\ pacc = AccountNone /\ pout.kind = "InvalidData"
C18_MissingEntryRefused ==
    /\ pout.done
    /\ pacc = Account_with_address(AddrA)
    /\ EntryMissing
    /\ pout.kind = "InvalidArg"
C18_BadEntryRefused ==
    pout.done /\ EntryFound /\ ~EntryAccount.ok /\ ~pout.ok

\* the cells of a proof that are kept, and its pruned branches
RECURSIVE KeptCells(_)
KeptCells(node) ==
    IF IsPruned(node) THEN {}
    ELSE {node} \cup UNION {KeptCells(node.refs[i]) : i \in 1..Len(node.refs)}
RECURSIVE PrunedHashes(_)
PrunedHashes(node) ==
    IF IsPruned(node) THEN {node.pruned_hash}
    ELSE UNION {PrunedHashes(node.refs[i]) : i \in 1..Len(node.refs)}

\* r2 is r1 but for the cells the usage tree does not hold, whose hashes are
\* those of r1
RECURSIVE DiffersOnlyUntouched(_, _, _)
DiffersOnlyUntouched(r1, r2, usage) ==
    IF repr_hash(r1) \notin usage THEN repr_hash(r2) = repr_hash(r1)
    ELSE /\ r2.data = r1.data
         /\ Len(r2.refs) = Len(r1.refs)
         /\ \A i \in 1..Len(r1.refs) :
                DiffersOnlyUntouched(r1.refs[i], r2.refs[i], usage)

\* the leaf of B in the index under proot, when it holds A and B
LeafOfB == proot.refs[1].refs[1].refs[KeyBit(AddrB.address, 0) + 1]
HoldsAAndB ==
    /\ RootParses
    /\ Len(proot.refs[1].refs) = 1
    /\ Len(proot.refs[1].refs[1].refs) = 2

\* C19: a successful prepare_proof returns a pruned structure where every
\* cell touched on the way to the account is kept with its own bits and
\* every other subtree, the one of the other account included, is a
\* placeholder carrying its hash; a state root that differs only in
\* untouched cells of equal hashes gives the same proof; the hash of the
\* pruned structure is the hash of state_root.
C19_ProofIsPrunedState ==
    (pout.done /\ pout.ok) =>
        LET proof == pout.proof[1] IN
        /\ proof_hash(proof) = repr_hash(proot)
        /\ pout.hash = repr_hash(proot)
        /\ \A c \in KeptCells(proof) :
               \E o \in Reachable(proot) :
                   /\ repr_hash(o) \in pout.usage
                   /\ o.data = c.data
                   /\ Len(o.refs) = Len(c.refs)
        /\ \A o \in Reachable(proot) :
               repr_hash(o) \in pout.usage => \E c \in KeptCells(proof) :
                   c.data = o.data /\ proof_hash(c) = repr_hash(o)
        /\ PrunedHashes(proof) \cap pout.usage = {}
        /\ (HoldsAAndB /\ pacc = Account_with_address(AddrA))
               => (PrunedBranch(LeafOfB) \in {proof.refs[1].refs[1].refs[i] : i \in 1..2})
        /\ \A r2 \in ShardStates :
               DiffersOnlyUntouched(proot, r2, pout.usage)
                   => prepare_proof(pacc, r2).proof = pout.proof

\* a proof for A from an index that holds A and B: the leaf of B and the
\* rest of the state are placeholders, and another state root, with other
\* bits in the account of B, gives the same proof
C19_Witness ==
    /\ pout.done
    /\ pout.ok
    /\ pacc = Account_with_address(AddrA)
    /\ HoldsAAndB
    /\ IsPruned(pout.proof[1].refs[2])
    /\ PrunedBranch(LeafOfB) \in {pout.proof[1].refs[1].refs[1].refs[i] : i \in 1..2}
    /\ \E r2 \in ShardStates :
           /\ r2 # proot
           /\ Len(r2.refs) = 2
           /\ r2.refs[2] = proot.refs[2]
           /\ DiffersOnlyUntouched(proot, r2, pout.usage)
           /\ prepare_proof(pacc, r2).proof = pout.proof

-----------------------------------------------------------------------------
(* Claims on ShardAccount, checked under SpecShard *)

\* the account root node of a ShardAccount: the node its serialization
\* references
AccountRoot(sa) ==
    into_cell(ShardAccount_write_to(sa, BuilderData_new)).cell.refs[1]

\* the ShardAccounts the one of the run is compared with: those a run
\* starts from, and those made of a given root node
ShardPeers ==
    InitShardAccounts
    \cup {ShardAccount_with_account_root(c, h, lt) :
             c \in {TwinX, TwinY, DefaultAccountCell},
             h \in TransHashes, lt \in 0..MaxLt}

\* C20: after write_account(a) succeeds read_account returns an account
\* equal to a, and last_trans_hash and last_trans_lt are what they were; two
\* ShardAccounts are equal iff the account root nodes their serializations
\* reference have the same hash and their last_trans_hash and last_trans_lt
\* are equal; a ShardAccount serialized and read back is equal to the
\* ShardAccount.
C20_ShardAccountKeepsAccount ==
    /\ (slast.op = "write_account" /\ slast.ok) =>
           /\ ShardAccount_read_account(shard).ok
           /\ Account_eq(ShardAccount_read_account(shard).val, slast.arg)
           /\ shard.last_trans_hash = slast.pre.last_trans_hash
           /\ shard.last_trans_lt = slast.pre.last_trans_lt
    /\ \A t \in ShardPeers :
           ShardAccount_eq(shard, t) <=>
               /\ repr_hash(AccountRoot(shard)) = repr_hash(AccountRoot(t))
               /\ shard.last_trans_hash = t.last_trans_hash
               /\ shard.last_trans_lt = t.last_trans_lt
    /\ slast.op = "round_trip" =>
           /\ slast.ok
           /\ ShardAccount_eq(slast.val, shard)

\* write_account put an Active account with code into a ShardAccount that
\* held another account, and read_account gives it back
C20_Witness ==
    /\ slast.op = "write_account"
    /\ slast.ok
    /\ status(slast.arg) = "AccStateActive"
    /\ account_cell(slast.pre) # account_cell(shard)
    /\ slast.pre.last_trans_lt = 1
    /\ ShardAccount_read_account(shard).val = slast.arg

\* a ShardAccount that holds an account and a last_trans_hash was
\* serialized and read back
C20_RoundTripReached ==
    /\ slast.op = "round_trip"
    /\ slast.ok
    /\ shard.last_trans_hash # 0
    /\ shard.last_trans_lt = 1
    /\ IsSome(ShardAccount_read_account(shard).val)
    /\ slast.val = shard

\* write_account failed on an account that does not serialize, and the
\* ShardAccount is what it was
C20_WriteRefused ==
    /\ slast.op = "write_account"
    /\ ~slast.ok
    /\ shard = slast.pre

\* two ShardAccounts whose account cells differ and have the same hash are
\* equal
C20_EqualByHash ==
    /\ slast.op = "set_account_cell"
    /\ account_cell(slast.pre) = TwinX
    /\ account_cell(shard) = TwinY
    /\ ShardAccount_eq(slast.pre, shard)

\* the default ShardAccount, which was given no reference, is equal to the
\* one write_account made of it with the absent account
C20_DefaultEqualsAbsent ==
    /\ slast.op = "write_account"
    /\ slast.ok
    /\ slast.pre = ShardAccount_default
    /\ slast.arg = AccountNone
    /\ shard # slast.pre
    /\ ShardAccount_eq(slast.pre, shard)

-----------------------------------------------------------------------------
(* Claims on the status, checked under Spec *)

\* C21: status() gives nonexist exactly for the None account, uninit, frozen
\* and active exactly for the Uninit, Frozen and Active states; the
\* AccountStatus is written as 00 = uninit, 01 = frozen, 10 = active,
\* 11 = nonexist, and read back as the same value.
C21_StatusMatchesState ==
    /\ status(account) = "AccStateNonexist" <=> account = AccountNone
    /\ status(account) = "AccStateUninit" <=> state(account) = Some(AccountUninit)
    /\ status(account) = "AccStateFrozen"
           <=> (IsSome(account) /\ Unwrap(account).storage.state.tag = "Frozen")
    /\ status(account) = "AccStateActive"
           <=> (IsSome(account) /\ Unwrap(account).storage.state.tag = "Active")
    /\ last.op = "status" =>
           /\ last.ret.status = status(account)
           /\ last.ret.enc = CASE last.ret.status = "AccStateUninit" -> <<0, 0>>
                               [] last.ret.status = "AccStateFrozen" -> <<0, 1>>
                               [] last.ret.status = "AccStateActive" -> <<1, 0>>
                               [] last.ret.status = "AccStateNonexist" -> <<1, 1>>
           /\ last.ret.dec.sl.ok
           /\ last.ret.dec.sl.data = <<>>
           /\ last.ret.dec.val = last.ret.status

\* the status of a Frozen account, written as 01 and read back as frozen
C21_Witness ==
    /\ last.op = "status"
    /\ IsSome(account)
    /\ Unwrap(account).storage.state.tag = "Frozen"
    /\ last.ret.status = "AccStateFrozen"
    /\ last.ret.enc = <<0, 1>>
    /\ last.ret.dec.val = "AccStateFrozen"

\* the four statuses are reached
C21_NonexistReached == last.op = "status" /\ last.ret.dec.val = "AccStateNonexist"
C21_UninitReached == last.op = "status" /\ last.ret.dec.val = "AccStateUninit"
C21_ActiveReached == last.op = "status" /\ last.ret.dec.val = "AccStateActive"

-----------------------------------------------------------------------------
(* Claims on the two footprint recomputations, checked under Spec *)

\* the nodes of a cell with the reference path that leads to each
RECURSIVE PathNodes(_)
PathNodes(cell) ==
    {<<<<>>, repr_hash(cell)>>}
    \cup UNION {{<<<<i>> \o pn[1], pn[2]>> : pn \in PathNodes(cell.refs[i])} :
                   i \in 1..Len(cell.refs)}

\* some node of the cell is reached by more than one reference path: a cell
\* below it holds several references to one child, or two paths end in one
\* node
SharesNode(cell) ==
    \/ \E c \in Reachable(cell) : Repeats(c)
    \/ \E p, q \in PathNodes(cell) : p[1] # q[1] /\ p[2] = q[2]

\* a < b for two VarUInteger7
VarUInteger7_lt(a, b) == a.hi < b.hi \/ (a.hi = b.hi /\ a.lo < b.lo)

\* the u64 fits a VarUInteger7
FitsSevenBytes(v) == v.hi < Limb

\* the serialized storage of the account the last call was made on
StorageCellBefore == AccountStorage_serialize(Unwrap(last.pre).storage).cell

\* the footprint update_storage_stat leaves in the account the last call was
\* made on, the footprint the last call left, and the one it found
ExactUsed == Unwrap(update_storage_stat(last.pre).acc).storage_stat.used
UsedAfter == Unwrap(account).storage_stat.used
UsedBefore == Unwrap(last.pre).storage_stat.used

\* C22 as stated: update_storage_stat_fast and update_storage_stat on the
\* same account give the same cells and bits when no node of the serialized
\* storage is reached by more than one reference path, and the fast one
\* gives strictly larger cells and bits when one is; both leave the extra
\* tag None; both succeed and change nothing on the None account.
C22_FastStrictlyLargerWhenShared ==
    last.op = "update_storage_stat_fast" =>
        IF IsSome(last.pre)
        THEN /\ last.ok
             /\ update_storage_stat(last.pre).ok
             /\ UsedAfter.extra = None
             /\ ExactUsed.extra = None
             /\ IF SharesNode(StorageCellBefore)
                THEN /\ VarUInteger7_lt(ExactUsed.cells, UsedAfter.cells)
                     /\ VarUInteger7_lt(ExactUsed.bits, UsedAfter.bits)
                ELSE /\ UsedAfter.cells = ExactUsed.cells
                     /\ UsedAfter.bits = ExactUsed.bits
        ELSE /\ last.ok
             /\ account = AccountNone
             /\ update_storage_stat(last.pre) = Ok(TRUE, AccountNone)

\* C22 amended: update_storage_stat succeeds and leaves the extra tag None.
\* update_storage_stat_fast succeeds exactly when the per-path bit count
\* and cell count of the serialized storage both fit 7 bytes.  When it
\* succeeds it leaves the extra tag None, the same cells and bits as
\* update_storage_stat if no node is reached by more than one reference
\* path, and otherwise strictly more cells and no fewer bits.  When it fails
\* a node is shared, cells and the extra tag are what they were, bits holds
\* the per-path bit count if that one fitted, and nothing else changed.
\* Both succeed and change nothing on the None account.
C22_FastCountsPerPath ==
    last.op = "update_storage_stat_fast" =>
        IF IsSome(last.pre)
        THEN /\ update_storage_stat(last.pre).ok
             /\ ExactUsed.extra = None
             /\ last.ok <=>
                    /\ FitsSevenBytes(tree_bits_count(StorageCellBefore))
                    /\ FitsSevenBytes(tree_cell_count(StorageCellBefore))
             /\ last.ok =>
                    /\ UsedAfter.extra = None
                    /\ IF SharesNode(StorageCellBefore)
                       THEN /\ VarUInteger7_lt(ExactUsed.cells, UsedAfter.cells)
                            /\ ~VarUInteger7_lt(UsedAfter.bits, ExactUsed.bits)
                       ELSE /\ UsedAfter.cells = ExactUsed.cells
                            /\ UsedAfter.bits = ExactUsed.bits
             /\ ~last.ok =>
                    /\ SharesNode(StorageCellBefore)
                    /\ UsedAfter.cells = UsedBefore.cells
                    /\ UsedAfter.extra = UsedBefore.extra
                    /\ UsedAfter.bits =
                           IF FitsSevenBytes(tree_bits_count(StorageCellBefore))
                           THEN tree_bits_count(StorageCellBefore)
                           ELSE UsedBefore.bits
                    /\ [Unwrap(account) EXCEPT
                           !.storage_stat.used.bits = UsedBefore.bits]
                           = Unwrap(last.pre)
        ELSE /\ last.ok
             /\ account = AccountNone
             /\ update_storage_stat(last.pre) = Ok(TRUE, AccountNone)

\* update_storage_stat_fast succeeded on an account whose code shares nodes
\* that hold no bits: it counts more cells than update_storage_stat and the
\* same bits
C22_Witness ==
    /\ last.op = "update_storage_stat_fast"
    /\ IsSome(last.pre)
    /\ last.ok
    /\ SharesNode(StorageCellBefore)
    /\ VarUInteger7_lt(ExactUsed.cells, UsedAfter.cells)
    /\ UsedAfter.bits = ExactUsed.bits
    /\ UsedAfter.extra = None

\* update_storage_stat_fast on an account whose code and data share a node
\* that holds bits: it counts more cells and more bits
C22_MoreBitsReached ==
    /\ last.op = "update_storage_stat_fast"
    /\ IsSome(last.pre)
    /\ last.ok
    /\ SharesNode(StorageCellBefore)
    /\ VarUInteger7_lt(ExactUsed.cells, UsedAfter.cells)
    /\ VarUInteger7_lt(ExactUsed.bits, UsedAfter.bits)

\* update_storage_stat_fast failed on the cell count after it had stored
\* the bit count: the extra tag is not reset
C22_FailedHalfWay ==
    /\ last.op = "update_storage_stat_fast"
    /\ ~last.ok
    /\ UsedAfter.bits # UsedBefore.bits
    /\ UsedAfter.cells = UsedBefore.cells
    /\ IsSome(UsedAfter.extra)

\* update_storage_stat_fast failed on the bit count and left the account
C22_FailedAtOnce ==
    /\ last.op = "update_storage_stat_fast"
    /\ ~last.ok
    /\ account = last.pre

\* update_storage_stat_fast on an account with references and no shared
\* node: the counts are those of update_storage_stat
C22_AgreeReached ==
    /\ last.op = "update_storage_stat_fast"
    /\ IsSome(last.pre)
    /\ Len(StorageCellBefore.refs) > 0
    /\ ~SharesNode(StorageCellBefore)
    /\ UsedAfter = ExactUsed

\* update_storage_stat_fast on the None account
C22_OnNone ==
    last.op = "update_storage_stat_fast" /\ last.pre = AccountNone /\ last.ok

\* an account whose footprint carried the extension tag: both
\* recomputations leave the tag None
C22_ExtraReset ==
    /\ last.op = "update_storage_stat_fast"
    /\ IsSome(last.pre)
    /\ last.ok
    /\ IsSome(UsedBefore.extra)
    /\ UsedAfter.extra = None
    /\ ExactUsed.extra = None

-----------------------------------------------------------------------------
(* Claims on the constructors, checked under SpecBuild *)

\* the last constructor call returned an Active account
BuiltActive ==
    /\ IsSome(built.out)
    /\ status(Unwrap(built.out)) = "AccStateActive"

\* the hash of the state_init given to the last constructor call is the
\* address it was given
BuiltHashIsAddress ==
    /\ IsSome(built.init)
    /\ IsSome(built.addr)
    /\ StateInit_hash(Unwrap(built.init)).ok
    /\ StateInit_hash(Unwrap(built.init)).val =
           get_address(Unwrap(built.addr))

\* C23: no constructor gets past the activation hash gate:
\* from_message_by_init_code_hash returns an Active account for the
\* destination a and the embedded state_init s only if hash(s) = a
C23_FromMessageBehindHashGate ==
    (built.op = "from_message_by_init_code_hash" /\ BuiltActive)
        => BuiltHashIsAddress

\* from_message_by_init_code_hash returned an Active account whose
\* state_init is the embedded one, and the hash of that state_init is not
\* the destination address
C23_Witness ==
    /\ built.op = "from_message_by_init_code_hash"
    /\ BuiltActive
    /\ state_init(Unwrap(built.out)) = built.init
    /\ get_addr(Unwrap(built.out)) = built.addr
    /\ ~BuiltHashIsAddress

\* active_by_init_code_hash returned an Active account at an address that
\* is not the hash of its state_init
C23_ActiveConstructorUngated ==
    /\ built.op = "active_by_init_code_hash"
    /\ BuiltActive
    /\ state_init(Unwrap(built.out)) = built.init
    /\ ~BuiltHashIsAddress

\* from_message_by_init_code_hash as coded: an account is returned exactly
\* when the message has an internal header with a non-zero amount of grams
\* and either a state_init with code, or no state_init and no bounce flag;
\* it is Active in the first case and Uninit in the second, at the
\* destination address and with the value of the message as balance
C23_FromMessageAsCoded ==
    built.op = "from_message_by_init_code_hash" =>
        /\ IsSome(built.out) =>
               /\ get_addr(Unwrap(built.out)) = built.addr
               /\ Unwrap(Unwrap(built.out)).storage.balance.grams > 0
               /\ status(Unwrap(built.out)) =
                      IF IsSome(built.init) THEN "AccStateActive"
                      ELSE "AccStateUninit"
               /\ IsSome(built.init) => IsSome(Unwrap(built.init).code)
               /\ init_code_hash(Unwrap(built.out)) =
                      IF IsSome(built.init) /\ built.flag
                      THEN CodeHash(Unwrap(built.init))
                      ELSE None
        /\ ~IsSome(built.out) <=>
               \/ ~IsSome(Unwrap(built.msg).header)
               \/ Unwrap(Unwrap(built.msg).header).value.grams = 0
               \/ IsSome(built.init) /\ ~IsSome(Unwrap(built.init).code)
               \/ ~IsSome(built.init) /\ Unwrap(Unwrap(built.msg).header).bounce

\* from_message_by_init_code_hash returned an Uninit account
C23_UninitReached ==
    /\ built.op = "from_message_by_init_code_hash"
    /\ IsSome(built.out)
    /\ status(Unwrap(built.out)) = "AccStateUninit"

\* from_message_by_init_code_hash returned no account for a message that
\* carries a state_init
C23_NoAccountReached ==
    /\ built.op = "from_message_by_init_code_hash"
    /\ IsSome(built.addr)
    /\ IsSome(built.init)
    /\ ~IsSome(built.out)

\* a mutator is behind the gate: an account that try_activate turned
\* Active from Uninit has the hash of the given state_init as its address,
\* one turned Active from Frozen was frozen with that hash
C23_MutatorBehindHashGate ==
    BecameActive =>
        /\ StateInit_hash(last.arg.si).ok
        /\ IF status(last.pre) = "AccStateUninit"
           THEN StateInit_hash(last.arg.si).val =
                    get_address(Unwrap(last.pre).addr)
           ELSE Unwrap(last.pre).storage.state.state_init_hash =
                    StateInit_hash(last.arg.si).val

-----------------------------------------------------------------------------
(* Claims on decoding an encoding followed by other bits, checked under    *)
(* SpecCodec                                                               *)

\* the decode of encode(cx) followed by the tail returned an account equal
\* to cx and left exactly the tail in the slice
TailLeftUnread ==
    /\ ctrail.ok
    /\ Account_eq(ctrail.val, cx)
    /\ ctrail.sl.data = ctrail.tail
    /\ ctrail.sl.refs = <<>>

\* C24: the Account encoding is self-delimiting: for every Account x, None
\* included, and every sequence of trailing bits t, decoding a slice that
\* holds encode(x) followed by t returns an account equal to x and consumes
\* exactly the bits of encode(x), leaving t unread.
C24_SelfDelimiting == ctrail.done => TailLeftUnread

\* the encoding of None followed by the bits 000 decoded to None, and the
\* three trailing bits were consumed
C24_Witness ==
    /\ ctrail.done
    /\ ~IsSome(cx)
    /\ cenc.cell.data = <<0>>
    /\ ctrail.tail = <<0, 0, 0>>
    /\ ctrail.ok
    /\ ~IsSome(ctrail.val)
    /\ ctrail.sl.data = <<>>

\* the encoding of None followed by a single bit failed to decode
C24_NoneWithOneBitFails ==
    /\ ctrail.done
    /\ ~IsSome(cx)
    /\ Len(ctrail.tail) = 1
    /\ ~ctrail.ok

\* C24, for the accounts that exist: the encoding of an account other than
\* None followed by trailing bits decodes to an equal account and leaves
\* the trailing bits unread
C24_SelfDelimitingWhenPresent ==
    (ctrail.done /\ IsSome(cx)) => TailLeftUnread

\* C24, for None as coded: the single bit 0 followed by trailing bits is
\* read as a 4-bit tag; the decode succeeds only when the three bits after
\* the 0 are 000, returns None, and has consumed those three bits
C24_NoneReadsTag ==
    (ctrail.done /\ ~IsSome(cx)) =>
        /\ ctrail.ok <=> /\ Len(ctrail.tail) >= 3
                         /\ SubSeq(ctrail.tail, 1, 3) = <<0, 0, 0>>
        /\ ctrail.ok =>
               /\ ~IsSome(ctrail.val)
               /\ ctrail.sl.data = SubSeq(ctrail.tail, 4, Len(ctrail.tail))

\* an Active account with an init_code_hash, encoded in the extended
\* layout and followed by four bits, decoded to an equal account with the
\* four bits left in the slice
C24_PresentReached ==
    /\ ctrail.done
    /\ IsSome(cx)
    /\ Unwrap(cx).storage.state.tag = "Active"
    /\ IsSome(init_code_hash(cx))
    /\ ctrail.tail = <<1, 1, 0, 1>>
    /\ TailLeftUnread

=============================================================================
